---- MODULE Spec2Model ----
(***************************************************************************)
(* A model of the sharding overlay (router, shard manager, message codec,  *)
(* query utilities) of src/sharding.                                       *)
(*                                                                         *)
(* Texts (queries, wire messages) are sequences of one-character strings.  *)
(* Three atoms stand for bytes that a TLA+ string literal cannot hold or   *)
(* that are clearer named: "LF" (line feed), "NUL" (the zero bytes that    *)
(* pad a 1024-byte receive buffer).  Message type names and the word       *)
(* "None" are spelled out character by character like everything else.     *)
(***************************************************************************)
EXTENDS Integers, Sequences, FiniteSets, TLC

(***************************************************************************)
(* Option<T>: None is the empty tuple, Some(x) the one-element tuple.      *)
(***************************************************************************)
None == <<>>
Some(x) == <<x>>
IsSome(o) == Len(o) = 1
IsNone(o) == Len(o) = 0
Unwrap(o) == o[1]

(***************************************************************************)
(* Text primitives of the Rust standard library, as the code uses them.    *)
(***************************************************************************)
LowerCase == <<"a","b","c","d","e","f","g","h","i","j","k","l","m",
               "n","o","p","q","r","s","t","u","v","w","x","y","z">>
UpperCase == <<"A","B","C","D","E","F","G","H","I","J","K","L","M",
               "N","O","P","Q","R","S","T","U","V","W","X","Y","Z">>
Digits == <<"0","1","2","3","4","5","6","7","8","9">>

\* char::is_whitespace for the bytes that occur: space and line feed.
\* The NUL byte is not whitespace.
IsWhitespace(c) == c \in {" ", "LF"}

UpperOf == [c \in {LowerCase[i] : i \in 1..26} |->
               UpperCase[CHOOSE i \in 1..26 : LowerCase[i] = c]]

\* char::to_uppercase on the ASCII letters; other characters are kept.
ToUpperChar(c) == IF c \in DOMAIN UpperOf THEN UpperOf[c] ELSE c

\* str::to_uppercase
to_uppercase(s) == [i \in 1..Len(s) |-> ToUpperChar(s[i])]

\* str::starts_with
starts_with(s, p) == Len(s) >= Len(p) /\ SubSeq(s, 1, Len(p)) = p

\* str::ends_with for a one-character pattern
ends_with_char(s, c) == Len(s) > 0 /\ s[Len(s)] = c

\* str::find: the 0-based index of the first occurrence, as an Option.
find(s, p) ==
    LET hits == {i \in 0..(Len(s) - Len(p)) : SubSeq(s, i + 1, i + Len(p)) = p}
    IN  IF hits = {} THEN None
        ELSE Some(CHOOSE i \in hits : \A j \in hits : i <= j)

\* &s[from..] with a 0-based byte index
SliceFrom(s, from) == SubSeq(s, from + 1, Len(s))
\* &s[..to] with a 0-based byte index
SliceTo(s, to) == SubSeq(s, 1, to)

\* str::trim
trim(s) ==
    LET keep == {i \in 1..Len(s) : ~IsWhitespace(s[i])}
    IN  IF keep = {} THEN <<>>
        ELSE SubSeq(s, CHOOSE i \in keep : \A j \in keep : i <= j,
                       CHOOSE i \in keep : \A j \in keep : i >= j)

\* str::split_whitespace, collected: the maximal runs of non-whitespace.
RECURSIVE split_whitespace(_)
split_whitespace(s) ==
    IF Len(s) = 0 THEN <<>>
    ELSE IF IsWhitespace(s[1]) THEN split_whitespace(Tail(s))
    ELSE LET stops == {i \in 1..Len(s) : IsWhitespace(s[i])}
             end == IF stops = {} THEN Len(s) + 1
                    ELSE CHOOSE i \in stops : \A j \in stops : i <= j
         IN  <<SubSeq(s, 1, end - 1)>> \o split_whitespace(SubSeq(s, end, Len(s)))

\* str::split(c), collected.
RECURSIVE split_char(_, _)
split_char(s, c) ==
    LET hits == {i \in 1..Len(s) : s[i] = c}
    IN  IF hits = {} THEN <<s>>
        ELSE LET k == CHOOSE i \in hits : \A j \in hits : i <= j
             IN  <<SubSeq(s, 1, k - 1)>> \o split_char(SubSeq(s, k + 1, Len(s)), c)

\* [T]::join(sep) on texts
RECURSIVE join(_, _)
join(parts, sep) ==
    IF Len(parts) = 0 THEN <<>>
    ELSE IF Len(parts) = 1 THEN parts[1]
    ELSE parts[1] \o sep \o join(Tail(parts), sep)

IsDigit(c) == \E i \in 1..10 : Digits[i] = c
DigitVal(c) == (CHOOSE i \in 1..10 : Digits[i] = c) - 1

RECURSIVE DigitsValue(_)
DigitsValue(s) ==
    IF Len(s) = 0 THEN 0
    ELSE DigitsValue(SubSeq(s, 1, Len(s) - 1)) * 10 + DigitVal(s[Len(s)])

\* str::parse::<i64>: an optional sign, then one or more digits; anything
\* else is an error (None here).
parse_i64(s) ==
    LET signed == Len(s) > 0 /\ s[1] \in {"+", "-"}
        body == IF signed THEN Tail(s) ELSE s
    IN  IF Len(body) = 0 \/ \E i \in 1..Len(body) : ~IsDigit(body[i]) THEN None
        ELSE IF signed /\ s[1] = "-" THEN Some(0 - DigitsValue(body))
        ELSE Some(DigitsValue(body))

RECURSIVE NatToText(_)
NatToText(n) ==
    IF n < 10 THEN <<Digits[n + 1]>>
    ELSE NatToText(n \div 10) \o <<Digits[(n % 10) + 1]>>

\* i64::to_string
i64_to_string(n) == IF n < 0 THEN <<"-">> \o NatToText(0 - n) ELSE NatToText(n)

(***************************************************************************)
(* Let(value, Body) is Body applied to value: a local binding               *)
(* `let x = value`, computed once however often the body reads x.          *)
(***************************************************************************)
Let(value, Body(_)) == Body(value)

(***************************************************************************)
(* Panics.  An operation that can panic yields Ok(result) or Panic;        *)
(* callers propagate a Panic (the thread unwinds).                         *)
(***************************************************************************)
Ok(v) == [tag |-> "Ok", val |-> v]
Panic == [tag |-> "Panic", val |-> <<>>]
IsPanic(r) == r.tag = "Panic"

(***************************************************************************)
(* utils/queries.rs                                                        *)
(***************************************************************************)
INSERT == <<"I","N","S","E","R","T">>
DELETE == <<"D","E","L","E","T","E">>
DROP == <<"D","R","O","P">>
UPDATE == <<"U","P","D","A","T","E">>
CREATE == <<"C","R","E","A","T","E">>
SELECT == <<"S","E","L","E","C","T">>
FROM == <<"F","R","O","M">>
INTO == <<"I","N","T","O">>
TABLE == <<"T","A","B","L","E">>

query_is(query, query_type) == starts_with(to_uppercase(query), query_type)

query_is_insert(query) == query_is(query, INSERT)

query_is_select(query) == query_is(query, SELECT)

query_affects_memory_state(query) ==
    \/ query_is(query, INSERT)
    \/ query_is(query, DELETE)
    \/ query_is(query, DROP)
    \/ query_is(query, UPDATE)
    \/ query_is(query, CREATE)

get_table_name_behind_keyword(query, keyword) ==
    LET query_aux == to_uppercase(query)
    IN  Let(find(query_aux, keyword), LAMBDA from_index :
            IF IsNone(from_index) THEN None
            ELSE LET right_side_query == SliceFrom(query, Unwrap(from_index) + Len(keyword))
                 IN  Let(split_whitespace(right_side_query), LAMBDA words :
                         IF Len(words) = 0 THEN None ELSE Some(words[1])))

or_else(a, b) == IF IsSome(a) THEN a ELSE b

get_table_name_from_query(query) ==
    Let(or_else(get_table_name_behind_keyword(query, FROM),
        or_else(get_table_name_behind_keyword(query, UPDATE),
        or_else(get_table_name_behind_keyword(query, INTO),
                get_table_name_behind_keyword(query, TABLE)))),
        LAMBDA found :
            IF IsNone(found) THEN None
            ELSE LET table_name == Unwrap(found)
                 IN  IF ends_with_char(table_name, ";")
                     THEN Some(SubSeq(table_name, 1, Len(table_name) - 1))
                     ELSE Some(table_name))

WHERE_ID == <<"W","H","E","R","E"," ","I","D">>
query_substring1 == WHERE_ID \o <<" ", "=", " ">>
query_substring2 == WHERE_ID \o <<" ", "=">>
query_substring3 == WHERE_ID \o <<"=", " ">>
query_substring4 == WHERE_ID \o <<"=">>

get_id_index(query) ==
    Let(to_uppercase(query), LAMBDA query_aux :
        LET index1 == find(query_aux, query_substring1)
            index2 == find(query_aux, query_substring2)
            index3 == find(query_aux, query_substring3)
            index4 == find(query_aux, query_substring4)
        IN  IF IsSome(index1) THEN Some(Unwrap(index1) + Len(query_substring1))
            ELSE IF IsSome(index2) THEN Some(Unwrap(index2) + Len(query_substring2))
            ELSE IF IsSome(index3) THEN Some(Unwrap(index3) + Len(query_substring3))
            ELSE IF IsSome(index4) THEN Some(Unwrap(index4) + Len(query_substring4))
            ELSE None)

get_trimmed_id(query, from) ==
    Let(trim(SliceFrom(query, from)), LAMBDA id :
        IF ends_with_char(id, ";") THEN SubSeq(id, 1, Len(id) - 1) ELSE id)

\* Ok(Option<i64>), or Panic when the text after the predicate is no integer
\* (id.parse::<i64>().unwrap()).
get_id_if_exists(query) ==
    Let(get_id_index(query), LAMBDA id_index :
        IF IsNone(id_index) THEN Ok(None)
        ELSE Let(parse_i64(get_trimmed_id(query, Unwrap(id_index))), LAMBDA parsed :
                 IF IsNone(parsed) THEN Panic ELSE Ok(parsed)))

\* Called only when get_id_if_exists(query) returned Some.
format_query_with_new_id(query, new_id) ==
    Let(Unwrap(get_id_index(query)), LAMBDA id_index :
        LET id == get_trimmed_id(query, id_index)
            id_len == Len(id)
        IN  SliceTo(query, id_index) \o i64_to_string(new_id)
                \o SliceFrom(query, id_index + id_len))

(***************************************************************************)
(* std::collections::BinaryHeap as node/shard_manager.rs uses it: an array *)
(* (0-based indices) of ShardManagerObject [key, value] ordered by key     *)
(* alone (impl Ord/PartialOrd for ShardManagerObject).                     *)
(***************************************************************************)
ShardManagerObject(key, value) == [key |-> key, value |-> value]

\* PartialOrd::le through partial_cmp, which compares the keys only.
object_le(a, b) == a.key <= b.key

Swap(data, i, j) == [data EXCEPT ![i + 1] = data[j + 1], ![j + 1] = data[i + 1]]

\* BinaryHeap::sift_up(start, pos): the element at pos rises while it is
\* strictly greater than its parent.
RECURSIVE sift_up(_, _, _)
sift_up(data, start, pos) ==
    IF pos > start
    THEN LET parent == (pos - 1) \div 2
         IN  IF object_le(data[pos + 1], data[parent + 1]) THEN data
             ELSE sift_up(Swap(data, pos, parent), start, parent)
    ELSE data

\* A push that leaves the new item where it was appended, without sift_up.
heap_push_unsifted(data, item) == Append(data, item)

\* BinaryHeap::push
heap_push(data, item) == sift_up(Append(data, item), 0, Len(data))

\* The descent of BinaryHeap::sift_down_to_bottom: <<data, final position>>.
RECURSIVE sift_down_path(_, _)
sift_down_path(data, pos) ==
    LET end == Len(data)
        child == 2 * pos + 1
    IN  IF child <= end - 2
        THEN LET c == IF object_le(data[child + 1], data[child + 2])
                      THEN child + 1 ELSE child
             IN  sift_down_path(Swap(data, pos, c), c)
        ELSE IF child = end - 1 THEN <<Swap(data, pos, child), child>>
        ELSE <<data, pos>>

\* BinaryHeap::sift_down_to_bottom(0)
sift_down_to_bottom(data) ==
    Let(sift_down_path(data, 0), LAMBDA down : sift_up(down[1], 0, down[2]))

\* BinaryHeap::pop on a non-empty heap: <<the greatest item, the rest>>.
heap_pop(data) ==
    LET item == data[Len(data)]
        rest == SubSeq(data, 1, Len(data) - 1)
    IN  IF Len(rest) = 0 THEN <<item, rest>>
        ELSE <<rest[1], sift_down_to_bottom([rest EXCEPT ![1] = item])>>

(***************************************************************************)
(* node/shard_manager.rs.  Each operation maps the heap's array to the     *)
(* array after the call; delete and update_shard_memory, which can panic,  *)
(* to Ok(array) or Panic.                                                  *)
(***************************************************************************)
add_shard(shards, value, shard_id) ==
    heap_push(shards, ShardManagerObject(value, shard_id))

peek(shards) == IF Len(shards) = 0 THEN None ELSE Some(shards[1].value)

pop(shards) == IF Len(shards) = 0 THEN shards ELSE heap_pop(shards)[2]

\* The loop of delete: pop everything, push all but shard_id on a new heap.
RECURSIVE drain_without(_, _, _)
drain_without(shards, new_shards, shard_id) ==
    IF Len(shards) = 0 THEN new_shards
    ELSE Let(heap_pop(shards), LAMBDA popped :
             IF popped[1].value = shard_id
             THEN drain_without(popped[2], new_shards, shard_id)
             ELSE drain_without(popped[2], heap_push(new_shards, popped[1]), shard_id))

\* self.peek().unwrap() panics on an empty heap.
delete(shards, shard_id) ==
    IF IsNone(peek(shards)) THEN Panic
    ELSE IF shard_id = Unwrap(peek(shards)) THEN Ok(pop(shards))
    ELSE Ok(drain_without(shards, <<>>, shard_id))

update_shard_memory(shards, memory, shard_id) ==
    Let(delete(shards, shard_id), LAMBDA deleted :
        IF IsPanic(deleted) THEN Panic ELSE Ok(add_shard(deleted.val, memory, shard_id)))

(***************************************************************************)
(* The shard manager's side mapping shard_id -> TablesIdInfo.  router.rs    *)
(* calls save_max_ids_for_shard and get_max_ids_for_shard_table, which     *)
(* shard_manager.rs does not define; they are modelled from the            *)
(* description of the shard manager's operations.  A TablesIdInfo is an    *)
(* IndexMap: a sequence of <<table name, max id>> with distinct names.     *)
(***************************************************************************)
tables_get(info, table) ==
    IF \E i \in 1..Len(info) : info[i][1] = table
    THEN Some(info[CHOOSE i \in 1..Len(info) : info[i][1] = table][2])
    ELSE None

\* IndexMap::insert: a present key keeps its place and takes the new value.
tables_insert(info, table, value) ==
    IF \E i \in 1..Len(info) : info[i][1] = table
    THEN [i \in 1..Len(info) |-> IF info[i][1] = table THEN <<table, value>> ELSE info[i]]
    ELSE Append(info, <<table, value>>)

\* The mapping itself is a sequence of <<shard_id, TablesIdInfo>> with
\* distinct shard ids; saving replaces the snapshot of a known shard.
save_max_ids_for_shard(ids, shard_id, tables_id_info) ==
    IF \E i \in 1..Len(ids) : ids[i][1] = shard_id
    THEN [i \in 1..Len(ids) |->
             IF ids[i][1] = shard_id THEN <<shard_id, tables_id_info>> ELSE ids[i]]
    ELSE Append(ids, <<shard_id, tables_id_info>>)

get_max_ids_for_shard_table(ids, shard_id, table) ==
    IF \E i \in 1..Len(ids) : ids[i][1] = shard_id
    THEN tables_get(ids[CHOOSE i \in 1..Len(ids) : ids[i][1] = shard_id][2], table)
    ELSE None

(***************************************************************************)
(* node/tables_id_info.rs                                                  *)
(***************************************************************************)
\* ConvertToString for TablesIdInfo: "key:value" joined by ",".
tables_convert_to_string(info) ==
    join([i \in 1..Len(info) |-> info[i][1] \o <<":">> \o i64_to_string(info[i][2])],
         <<",">>)

\* FromString for TablesIdInfo: Ok(mapping); Panic on a pair without ':' or
\* with a value that is no integer.
RECURSIVE tables_from_pairs(_, _)
tables_from_pairs(pairs, result) ==
    IF Len(pairs) = 0 THEN Ok(result)
    ELSE Let(split_char(pairs[1], ":"), LAMBDA parts :
             IF Len(parts) < 2 THEN Panic
             ELSE Let(parse_i64(parts[2]), LAMBDA value :
                      IF IsNone(value) THEN Panic
                      ELSE tables_from_pairs(Tail(pairs),
                               tables_insert(result, parts[1], Unwrap(value)))))

tables_from_string(string) == tables_from_pairs(split_char(string, ","), <<>>)

(***************************************************************************)
(* node/messages/node_info.rs and node/messages/message.rs                 *)
(***************************************************************************)
NodeInfo(ip, port) == [ip |-> ip, port |-> port]

\* FromStr for NodeInfo: Some(node), or None for Err("Missing port").
node_info_from_str(input) ==
    Let(split_char(input, ":"), LAMBDA parts :
        IF Len(parts) < 2 THEN None ELSE Some(NodeInfo(parts[1], parts[2])))

MessageTypes == {"InitConnection", "AskMemoryUpdate", "MemoryUpdate", "Agreed",
                 "Denied", "GetRouter", "RouterId", "NoRouterData", "Query",
                 "QueryResponse"}

TypeText(message_type) ==
    CASE
       message_type = "InitConnection" -> <<"I","N","I","T","_","C","O","N","N","E","C","T","I","O","N">>
    [] message_type = "AskMemoryUpdate" -> <<"A","S","K","_","M","E","M","O","R","Y","_","U","P","D","A","T","E">>
    [] message_type = "MemoryUpdate" -> <<"M","E","M","O","R","Y","_","U","P","D","A","T","E">>
    [] message_type = "Agreed" -> <<"A","G","R","E","E","D">>
    [] message_type = "Denied" -> <<"D","E","N","I","E","D">>
    [] message_type = "GetRouter" -> <<"G","E","T","_","R","O","U","T","E","R">>
    [] message_type = "RouterId" -> <<"R","O","U","T","E","R","_","I","D">>
    [] message_type = "NoRouterData" -> <<"N","O","_","R","O","U","T","E","R","_","D","A","T","A">>
    [] message_type = "Query" -> <<"Q","U","E","R","Y">>
    [] message_type = "QueryResponse" -> <<"Q","U","E","R","Y","_","R","E","S","P","O","N","S","E">>

NoneText == <<"N","o","n","e">>

Message(message_type, payload, max_ids, node_info, query_data) ==
    [message_type |-> message_type, payload |-> payload, max_ids |-> max_ids,
     node_info |-> node_info, query_data |-> query_data]

new_init_connection(node_info) == Message("InitConnection", None, None, Some(node_info), None)
new_ask_memory_update == Message("AskMemoryUpdate", None, None, None, None)
new_memory_update(payload, max_ids) == Message("MemoryUpdate", Some(payload), Some(max_ids), None, None)
new_agreed(memory_percentage, max_ids) == Message("Agreed", Some(memory_percentage), Some(max_ids), None, None)
new_denied == Message("Denied", None, None, None, None)
new_get_router == Message("GetRouter", None, None, None, None)
new_router_id(node_info) == Message("RouterId", None, None, Some(node_info), None)
new_no_router_data == Message("NoRouterData", None, None, None, None)
new_query(sender_info, query) == Message("Query", None, None, sender_info, Some(query))
new_query_response(query_response) == Message("QueryResponse", None, None, None, Some(query_response))

\* MessageData, as Message::get_data builds it.
MessageData(payload, node_info, query, max_ids) ==
    [payload |-> payload, node_info |-> node_info, query |-> query, max_ids |-> max_ids]

new_none == MessageData(None, None, None, None)

get_data(m) ==
    CASE m.message_type \in {"InitConnection", "RouterId"} ->
            IF IsSome(m.node_info) THEN MessageData(None, m.node_info, None, None)
            ELSE new_none
      [] m.message_type \in {"MemoryUpdate", "Agreed"} ->
            IF IsSome(m.payload) /\ IsSome(m.max_ids)
            THEN MessageData(m.payload, None, None, m.max_ids)
            ELSE new_none
      [] m.message_type = "Query" ->
            IF IsSome(m.query_data) /\ IsSome(m.node_info)
            THEN MessageData(None, m.node_info, m.query_data, None)
            ELSE new_none
      [] m.message_type = "QueryResponse" ->
            IF IsSome(m.query_data) THEN MessageData(None, None, m.query_data, None)
            ELSE new_none
      [] OTHER -> new_none

\* Message::to_string.  The payload is a whole percentage here, so that
\* f64::to_string prints it as the integer's digits.
to_string(m) ==
    TypeText(m.message_type)
        \o <<" ">> \o (IF IsSome(m.payload) THEN i64_to_string(Unwrap(m.payload)) ELSE NoneText)
        \o <<" ">> \o (IF IsSome(m.max_ids) THEN tables_convert_to_string(Unwrap(m.max_ids)) ELSE NoneText)
        \o <<" ">> \o (IF IsSome(m.node_info)
                       THEN Unwrap(m.node_info).ip \o <<":">> \o Unwrap(m.node_info).port
                       ELSE NoneText)
        \o <<" ">> \o (IF IsSome(m.query_data) THEN Unwrap(m.query_data) ELSE NoneText)
        \o <<"LF">>

\* The query field of from_string: the fifth token, then every later token,
\* each followed by one space, cut before the first ';'.
RECURSIVE push_parts(_, _)
push_parts(query, parts) ==
    IF Len(parts) = 0 THEN query
    ELSE push_parts(query \o parts[1] \o <<" ">>, Tail(parts))

\* Message::from_string: [tag |-> "Ok", msg |-> message], [tag |-> "Err"] for
\* Err("Invalid message type"), or [tag |-> "Panic"] where a field's parse is
\* unwrapped (payload, node_info) or panics itself (max_ids).
from_string(input) ==
    Let(split_whitespace(input), LAMBDA parts :
        LET n == Len(parts)
            types == {t \in MessageTypes : n >= 1 /\ TypeText(t) = parts[1]}
            payload == IF n < 2 \/ parts[2] = NoneText THEN None ELSE parse_i64(parts[2])
            payload_bad == n >= 2 /\ parts[2] # NoneText /\ IsNone(parse_i64(parts[2]))
            max_ids == IF n < 3 \/ parts[3] = NoneText THEN None
                       ELSE Some(tables_from_string(parts[3]).val)
            max_ids_bad == n >= 3 /\ parts[3] # NoneText
                               /\ IsPanic(tables_from_string(parts[3]))
            node_info == IF n < 4 \/ parts[4] = NoneText THEN None
                         ELSE node_info_from_str(parts[4])
            node_info_bad == n >= 4 /\ parts[4] # NoneText
                                 /\ IsNone(node_info_from_str(parts[4]))
            query == IF n < 5 \/ parts[5] = NoneText THEN None
                     ELSE Some(split_char(push_parts(parts[5] \o <<" ">>,
                                                     SubSeq(parts, 6, n)), ";")[1])
        IN  IF types = {} THEN [tag |-> "Err", msg |-> new_denied]
            ELSE IF payload_bad \/ max_ids_bad \/ node_info_bad
            THEN [tag |-> "Panic", msg |-> new_denied]
            ELSE [tag |-> "Ok",
                  msg |-> Message(CHOOSE t \in types : TRUE, payload, max_ids, node_info,
                                  query)])

\* What a reader finds in its zeroed 1024-byte buffer after one read of a
\* message shorter than the buffer: the bytes written, then zero bytes
\* (String::from_utf8_lossy(&buffer) keeps them).
receive_buffer(written) == written \o <<"NUL">>

(***************************************************************************)
(* Rows of a backend result (utils/queries.rs, lines 120-258).  A Row is   *)
(* [columns, values]: the column names, and one integer cell per column    *)
(* (read by try_get::<usize, i32>).                                        *)
(***************************************************************************)
Row(columns, values) == [columns |-> columns, values |-> values]

get_column_names(columns) ==
    IF Len(columns) = 0 THEN <<>>
    ELSE join([i \in 1..Len(columns) |-> columns[i] \o <<" ", "|", " ">>], <<>>)

\* impl ConvertToString for Row
row_convert_to_string(row) ==
    IF Len(row.columns) = 0 THEN <<>>
    ELSE join([i \in 1..Len(row.columns) |->
                   i64_to_string(row.values[i]) \o <<" ", "|", " ">>], <<>>)

\* impl ConvertToStringOffset for Row: the cell of a column named "id" is
\* parsed back from its text and printed with the offset added.
convert_to_string_with_offset(row, offset) ==
    IF Len(row.columns) = 0 THEN <<>>
    ELSE join([i \in 1..Len(row.columns) |->
                   LET is_id == row.columns[i] = <<"i", "d">>
                       formatted_value == i64_to_string(row.values[i])
                   IN  (IF is_id
                        THEN i64_to_string(Unwrap(parse_i64(formatted_value)) + offset)
                        ELSE formatted_value) \o <<" ", "|", " ">>], <<>>)

\* impl ConvertToString for Vec<Row>
rows_convert_to_string(rows) ==
    IF Len(rows) = 0 THEN <<>>
    ELSE get_column_names(rows[1].columns) \o <<"LF">>
             \o join([i \in 1..Len(rows) |-> row_convert_to_string(rows[i]) \o <<"LF">>],
                     <<>>)

\* format_rows_with_offset: rows_offset is a sequence of <<rows, offset>>
\* whose first element has at least one row.
format_rows_with_offset(rows_offset) ==
    get_column_names(rows_offset[1][1][1].columns) \o <<"NUL">>
        \o join([k \in 1..Len(rows_offset) |->
                    join([i \in 1..Len(rows_offset[k][1]) |->
                             convert_to_string_with_offset(rows_offset[k][1][i],
                                                           rows_offset[k][2])
                                 \o <<"NUL">>], <<>>)], <<>>)

(***************************************************************************)
(* Bounds and the finite domains the environment draws from.               *)
(***************************************************************************)
\* The number of nodes, besides the router itself, in the configuration.
NumNodes == 2
\* The greatest max id a shard reports for a table.
MaxId == 2
\* The greatest number of rows a shard returns for one query.
MaxRows == 2

\* Whole percentages of free memory a shard reports.
Pcts == {10, 50}

table_t == <<"t">>
table_u == <<"u">>
column_id == <<"i", "d">>
column_v == <<"v">>

\* The tables_max_id mappings a shard reports: none of its tables has an id
\* (empty), table t with some max id (0 when t is empty), or only another
\* table.
TableInfos ==
    {<<>>, << <<table_u, 1>> >>} \cup {<< <<table_t, n>> >> : n \in 0..MaxId}

\* The results of a SELECT on one shard: rows (id, v) with local ids 1..n.
RowSets == {[i \in 1..n |-> Row(<<column_id, column_v>>, <<i, 7>>)] : n \in 0..MaxRows}

query_select_all == <<"S","E","L","E","C","T"," ","*"," ","F","R","O","M"," ","t",";">>
query_select_id2 == <<"S","E","L","E","C","T"," ","*"," ","F","R","O","M"," ","t"," ","W","H","E","R","E"," ","i","d"," ","="," ","2",";">>
query_select_id3 == <<"S","E","L","E","C","T"," ","*"," ","F","R","O","M"," ","t"," ","W","H","E","R","E"," ","i","d"," ","="," ","3",";">>
query_select_id5 == <<"S","E","L","E","C","T"," ","*"," ","F","R","O","M"," ","t"," ","W","H","E","R","E"," ","i","d"," ","="," ","5",";">>
query_select_id3_tight == <<"S","E","L","E","C","T"," ","*"," ","F","R","O","M"," ","t"," ","W","H","E","R","E"," ","i","d","=","3",";">>
query_select_id3_wide == <<"S","E","L","E","C","T"," ","*"," ","F","R","O","M"," ","t"," ","W","H","E","R","E"," ","i","d"," ","="," "," ","3",";">>
query_select_id_and == <<"S","E","L","E","C","T"," ","*"," ","F","R","O","M"," ","t"," ","W","H","E","R","E"," ","i","d"," ","="," ","2"," ","A","N","D"," ","v"," ","="," ","7",";">>
query_insert == <<"I","N","S","E","R","T"," ","I","N","T","O"," ","t"," ","(","v",")"," ","V","A","L","U","E","S"," ","(","7",")",";">>
query_delete_all == <<"d","e","l","e","t","e"," ","f","r","o","m"," ","t",";">>
query_delete_id2 == <<"D","E","L","E","T","E"," ","F","R","O","M"," ","t"," ","W","H","E","R","E"," ","i","d"," ","="," ","2",";">>
query_drop == <<"D","R","O","P"," ","T","A","B","L","E"," ","t",";">>
query_update == <<"U","P","D","A","T","E"," ","t"," ","S","E","T"," ","v"," ","="," ","7",";">>
query_create == <<"C","R","E","A","T","E"," ","T","A","B","L","E"," ","t"," ","(","i","d"," ","I","N","T",")",";">>

Queries ==
    {query_select_all,
     query_select_id2,
     query_select_id3,
     query_select_id5,
     query_select_id3_tight,
     query_select_id3_wide,
     query_select_id_and,
     query_insert,
     query_delete_all,
     query_delete_id2,
     query_drop,
     query_update,
     query_create}

\* The router's own node, the other nodes' addresses, and a client.
RouterNode == [ip |-> "10.0.0.0", port |-> "5432"]
IpNames == <<"10.0.0.1", "10.0.0.2", "10.0.0.3", "10.0.0.4">>
PortNames == <<"5433", "5434", "5435", "5436">>
ClientInfo == NodeInfo(<<"c">>, <<"9">>)

\* The node lists of the configuration file: the router itself, then
\* NumNodes nodes with distinct addresses, each on a port of its own or on
\* the port of the first.
Configs ==
    {<<RouterNode>> \o [i \in 1..NumNodes |-> [ip |-> IpNames[i], port |-> ports[i]]] :
        ports \in {q \in [1..NumNodes -> {PortNames[i] : i \in 1..NumNodes}] :
                      \A i \in 1..NumNodes : q[i] \in {PortNames[i], PortNames[1]}}}

\* What the peer does on a control channel is the environment's choice: a
\* Reply is [kind, wire] with kind "no_reply" (the read fails: nothing
\* arrived within the 10 s read timeout) or "reply" (the read returns and
\* the buffer holds the bytes wire; no bytes when the peer closed).
NoReply == [kind |-> "no_reply", wire |-> <<>>]
ReplyOf(wire) == [kind |-> "reply", wire |-> wire]

\* What a node answers on its control channel: nothing within the read
\* timeout, a closed connection, or a message.
Answer(kind, msg) == [kind |-> kind, msg |-> msg]
ReplyOfAnswer(answer) ==
    IF answer.kind = "no_reply" THEN NoReply
    ELSE IF answer.kind = "closed" THEN ReplyOf(<<>>)
    ELSE ReplyOf(to_string(answer.msg))

\* The courses of a node's configuration at startup: connect_to_node fails,
\* get_shard_channel fails, or the node answers INIT_CONNECTION (a shard
\* with AGREED, shard.rs lines 149-211).
StartupAnswers ==
    {Answer(k, new_denied) : k \in {"connect_fail", "channel_fail", "no_reply", "closed"}}
        \cup {Answer("message", new_denied)}
        \cup {Answer("message", new_agreed(p, m)) : p \in Pcts, m \in TableInfos}

\* The answers to ASK_MEMORY_UPDATE (a shard answers MEMORY_UPDATE, shard.rs
\* lines 213-229).
MemoryAnswers ==
    {Answer(k, new_denied) : k \in {"no_reply", "closed"}}
        \cup {Answer("message", new_denied)}
        \cup {Answer("message", new_memory_update(p, m)) : p \in Pcts, m \in TableInfos}

ToSet(seq) == {seq[i] : i \in 1..Len(seq)}

\* What a shard does with one query is the environment's choice:
\* [ok, rows, reply], where ok and rows are the outcome of shard.query (Err,
\* or Ok(rows)) and reply is the shard's answer to an ASK_MEMORY_UPDATE,
\* should one be written.
ShardOutcome(ok, rows, reply) == [ok |-> ok, rows |-> rows, reply |-> reply]

StartupCourses == {[answer |-> a, reply |-> ReplyOfAnswer(a)] : a \in StartupAnswers}
MemoryReplies == {ReplyOfAnswer(a) : a \in MemoryAnswers}

\* What one target can do with a query, by whether the query is a SELECT
\* (only then are there rows) and whether a memory update is to follow.
ShardOutcomes ==
    [select \in BOOLEAN, update \in BOOLEAN |->
        {ShardOutcome(FALSE, <<>>, NoReply)}
            \cup {ShardOutcome(TRUE, rows, reply) :
                     rows \in (IF select THEN RowSets ELSE {<<>>}),
                     reply \in (IF update THEN MemoryReplies ELSE {NoReply})}]

(***************************************************************************)
(* Memo.  The text functions are applied to few texts, over and over.      *)
(* Memo holds the values of each on the texts that occur, computed once    *)
(* by the function itself; a handler is given the memo and reads a         *)
(* function's value through the operator named after it (f_of for f).      *)
(***************************************************************************)
\* The bytes Client::send_query writes for a query, as Router::listen finds
\* them in its buffer.
ClientMessages ==
    [text \in Queries |-> receive_buffer(to_string(new_query(Some(ClientInfo), text)))]

\* The texts the router gives to Message::from_string: the clients'
\* messages and the nodes' replies.
ReceivedTexts(client_messages) ==
    {client_messages[text] : text \in Queries}
        \cup {receive_buffer(reply.wire) :
                 reply \in {r \in MemoryReplies \cup {c.reply : c \in StartupCourses} :
                               r.kind = "reply"}}

FromStringTable(received_texts) == [input \in received_texts |-> from_string(input)]

\* The query texts send_query is given: as written, and as decoded from a
\* client's message.
ReceivedQueries(client_messages, from_string_table) ==
    Queries \cup {from_string_table[client_messages[text]].msg.query_data[1] :
                     text \in Queries}

has_id(query) ==
    Let(get_id_if_exists(query), LAMBDA id : ~IsPanic(id) /\ IsSome(id.val))

NewIdTable(queries) ==
    [query \in {q \in queries : has_id(q)} |->
        [new_id \in 1..MaxId |-> format_query_with_new_id(query, new_id)]]

QueryTable(queries) ==
    [query \in queries |->
        [id |-> get_id_if_exists(query),
         table_name |-> get_table_name_from_query(query),
         is_insert |-> query_is_insert(query),
         is_select |-> query_is_select(query),
         affects_memory_state |-> query_affects_memory_state(query)]]

Memo ==
    Let(ClientMessages, LAMBDA client_messages :
    Let(FromStringTable(ReceivedTexts(client_messages)), LAMBDA from_string_table :
    Let(ReceivedQueries(client_messages, from_string_table), LAMBDA received_queries :
    Let(NewIdTable(received_queries), LAMBDA new_id_table :
        [client_messages |-> client_messages,
         from_string |-> from_string_table,
         new_id |-> new_id_table,
         query |-> QueryTable(received_queries
                                 \cup {new_id_table[q][n] :
                                          q \in DOMAIN new_id_table, n \in 1..MaxId})]))))

from_string_of(memo, input) == memo.from_string[input]

format_query_with_new_id_of(memo, query, new_id) == memo.new_id[query][new_id]

get_id_if_exists_of(memo, query) == memo.query[query].id

get_table_name_from_query_of(memo, query) == memo.query[query].table_name

query_is_insert_of(memo, query) == memo.query[query].is_insert

query_is_select_of(memo, query) == memo.query[query].is_select

query_affects_memory_state_of(memo, query) == memo.query[query].affects_memory_state

(***************************************************************************)
(* node/router.rs.  A Router value is the record                           *)
(*   shards        - IndexMap<String, PostgresClient>: a sequence of       *)
(*                   [id, node], node being the configured node whose      *)
(*                   backend session is stored under the id,               *)
(*   comm_channels - IndexMap<String, Channel>: likewise,                  *)
(*   shard_manager - the selection heap's array,                           *)
(*   max_ids       - the shard manager's per-shard max-id snapshots.       *)
(* The clones of a Router share all four (Arc), so one value stands for    *)
(* every clone.                                                            *)
(***************************************************************************)
Router(shards, comm_channels, shard_manager, max_ids) ==
    [shards |-> shards, comm_channels |-> comm_channels,
     shard_manager |-> shard_manager, max_ids |-> max_ids]

\* IndexMap::keys, IndexMap::contains_key, IndexMap::insert (an existing key
\* keeps its position and takes the new value).
\* The keys as a map ordered by its values would give them: in the order
\* of the nodes whose sessions it holds.
keys_by_session(map) ==
    [k \in 1..Len(map) |->
        map[CHOOSE i \in 1..Len(map) :
                Cardinality({j \in 1..Len(map) : map[j].node < map[i].node}) = k - 1].id]

keys(map) == [i \in 1..Len(map) |-> map[i].id]
contains_key(map, id) == \E i \in 1..Len(map) : map[i].id = id
index_map_insert(map, id, node) ==
    IF contains_key(map, id)
    THEN [i \in 1..Len(map) |->
             IF map[i].id = id THEN [id |-> id, node |-> node] ELSE map[i]]
    ELSE Append(map, [id |-> id, node |-> node])

save_shard_client(router, shard_id, node) ==
    [router EXCEPT !.shards = index_map_insert(@, shard_id, node)]

save_comm_channel(router, shard_id, node) ==
    [router EXCEPT !.comm_channels = index_map_insert(@, shard_id, node)]

save_shard_in_manager(router, memory_size, shard_id, max_ids) ==
    [router EXCEPT !.shard_manager = add_shard(@, memory_size, shard_id),
                   !.max_ids = save_max_ids_for_shard(@, shard_id, max_ids)]

\* Ok(router), or Panic out of update_shard_memory (before the snapshot is
\* saved).
update_shard_in_manager(router, memory_size, shard_id, max_ids) ==
    Let(update_shard_memory(router.shard_manager, memory_size, shard_id), LAMBDA updated :
        IF IsPanic(updated) THEN Panic
        ELSE Ok([router EXCEPT !.shard_manager = updated.val,
                               !.max_ids = save_max_ids_for_shard(@, shard_id, max_ids)]))

\* The result of a handler that returns a bool and may change the router:
\* [tag, router, result]; tag "Panic" when it unwinds.
Handled(router, result) == [tag |-> "Ok", router |-> router, result |-> result]
Unwound(router) == [tag |-> "Panic", router |-> router, result |-> FALSE]

handle_response(router, response_message, node_port) ==
    Let(get_data(response_message), LAMBDA data :
        CASE response_message.message_type = "Agreed" ->
                IF IsNone(data.payload) \/ IsNone(data.max_ids) THEN Unwound(router)
                ELSE Handled(save_shard_in_manager(router, Unwrap(data.payload), node_port,
                                                   Unwrap(data.max_ids)), TRUE)
          [] response_message.message_type = "MemoryUpdate" ->
                IF IsNone(data.payload) \/ IsNone(data.max_ids) THEN Unwound(router)
                ELSE Let(update_shard_in_manager(router, Unwrap(data.payload), node_port,
                                                 Unwrap(data.max_ids)),
                         LAMBDA updated : IF IsPanic(updated) THEN Unwound(router)
                                          ELSE Handled(updated.val, TRUE))
          [] OTHER -> Handled(router, FALSE))

\* send_init_connection_message: Message::from_string(..).unwrap() unwinds
\* on Err as well as on a panic inside from_string.
send_init_connection_message(memo, router, reply, node_port) ==
    IF reply.kind = "no_reply" THEN Handled(router, FALSE)
    ELSE Let(from_string_of(memo, receive_buffer(reply.wire)), LAMBDA response_message :
             IF response_message.tag # "Ok" THEN Unwound(router)
             ELSE handle_response(router, response_message.msg, node_port))

\* set_health_connection; channel is whether get_shard_channel connected.
set_health_connection(memo, router, node, node_port, channel, reply) ==
    IF ~channel THEN Handled(router, FALSE)
    ELSE Let(send_init_connection_message(memo, router, reply, node_port), LAMBDA sent :
             IF IsPanic(sent) THEN sent
             ELSE IF sent.result
             THEN Handled(save_comm_channel(sent.router, node_port, node), TRUE)
             ELSE sent)

\* configure_shard_connection_to; connect is whether connect_to_node
\* succeeded.
configure_shard_connection_to(memo, router, node, node_port, connect, channel, reply) ==
    IF ~connect THEN Handled(router, FALSE)
    ELSE set_health_connection(memo, save_shard_client(router, node_port, node),
                               node, node_port, channel, reply)

(***************************************************************************)
(* Target selection (router.rs, lines 367-426).  A plan is                 *)
(* [tag, shards, update, query]: the target shard ids, whether a memory    *)
(* update is to be requested, and the query to send; tag "Panic" when the  *)
(* selection unwinds.                                                      *)
(***************************************************************************)
Plan(shards, update, query) ==
    [tag |-> "Ok", shards |-> shards, update |-> update, query |-> query]
PlanPanic == [tag |-> "Panic", shards |-> <<>>, update |-> FALSE, query |-> <<>>]

\* The for loop of get_specific_shard_with over the keys still to visit:
\* None when no shard takes the id, else Some(<<shard_id, local id>>).
RECURSIVE walk_shards(_, _, _, _)
walk_shards(router, shard_ids, table_name, id) ==
    IF Len(shard_ids) = 0 THEN None
    ELSE Let(get_max_ids_for_shard_table(router.max_ids, shard_ids[1], table_name),
             LAMBDA max_id :
                 IF IsNone(max_id) THEN walk_shards(router, Tail(shard_ids), table_name, id)
                 ELSE IF id > Unwrap(max_id)
                 THEN walk_shards(router, Tail(shard_ids), table_name, id - Unwrap(max_id))
                 ELSE Some(<<shard_ids[1], id>>))

get_specific_shard_with(memo, router, id, query) ==
    Let(get_table_name_from_query_of(memo, query), LAMBDA table_name :
        IF IsNone(table_name)
        THEN Plan(keys(router.shards), query_affects_memory_state_of(memo, query), query)
        ELSE Let(walk_shards(router, keys(router.shards), Unwrap(table_name), id),
                 LAMBDA found :
                     IF IsNone(found)
                     THEN Plan(keys(router.shards),
                               query_affects_memory_state_of(memo, query), query)
                     ELSE Plan(<<Unwrap(found)[1]>>,
                               query_affects_memory_state_of(memo, query),
                               format_query_with_new_id_of(memo, query, Unwrap(found)[2]))))

\* get_id_if_exists unwinds on a non-integer id; shard_manager.peek().unwrap()
\* unwinds on an empty heap.
get_data_needed_from(memo, router, query) ==
    Let(get_id_if_exists_of(memo, query), LAMBDA id :
        IF IsPanic(id) THEN PlanPanic
        ELSE IF IsSome(id.val)
        THEN get_specific_shard_with(memo, router, Unwrap(id.val), query)
        ELSE IF query_is_insert_of(memo, query)
        THEN (IF IsNone(peek(router.shard_manager)) THEN PlanPanic
              ELSE Plan(<<Unwrap(peek(router.shard_manager))>>, TRUE, query))
        ELSE Plan(keys(router.shards), query_affects_memory_state_of(memo, query), query))

\* The loop of format_response over the shards that returned rows
\* (shards_responses: a sequence of <<shard_id, rows>>): None when a shard
\* has no max id for the table, else Some(rows_offset).
RECURSIVE offsets_of(_, _, _, _, _)
offsets_of(router, shards_responses, table_name, rows_offset, last_offset) ==
    IF Len(shards_responses) = 0 THEN Some(rows_offset)
    ELSE Let(get_max_ids_for_shard_table(router.max_ids, shards_responses[1][1],
                                         table_name),
             LAMBDA offset :
                 IF IsNone(offset) THEN None
                 ELSE offsets_of(router, Tail(shards_responses), table_name,
                                 Append(rows_offset,
                                        <<shards_responses[1][2], last_offset>>),
                                 Unwrap(offset)))

format_response(memo, router, shards_responses, query) ==
    Let(get_table_name_from_query_of(memo, query), LAMBDA table_name :
        IF IsNone(table_name) THEN <<>>
        ELSE Let(offsets_of(router, shards_responses, Unwrap(table_name), <<>>, 0),
                 LAMBDA rows_offset :
                     IF IsNone(rows_offset) THEN <<>>
                     ELSE format_rows_with_offset(Unwrap(rows_offset))))

(***************************************************************************)
(* Query execution (router.rs, lines 458-592).  outcomes gives, for each   *)
(* target, the ShardOutcome the environment chose.                         *)
(***************************************************************************)

\* init_message_exchange: write(..).unwrap() and read(..).unwrap() unwind
\* when the read times out; a reply that is no message is given up
\* (false), one whose fields do not parse unwinds inside from_string.
init_message_exchange(memo, router, reply, shard_id) ==
    IF reply.kind = "no_reply" THEN Unwound(router)
    ELSE Let(from_string_of(memo, receive_buffer(reply.wire)), LAMBDA response_message :
             IF response_message.tag = "Err" THEN Handled(router, FALSE)
             ELSE IF response_message.tag = "Panic" THEN Unwound(router)
             ELSE handle_response(router, response_message.msg, shard_id))

\* get_stream: Some exactly when the shard has a control channel.
get_stream(router, shard_id) == contains_key(router.comm_channels, shard_id)

\* ask_for_memory_update: [tag, router, asked], asked being whether
\* ASK_MEMORY_UPDATE was written to the shard.  (try_lock succeeds: the
\* startup handshake, the only other holder of the stream's lock, is over.)
ask_for_memory_update(memo, router, shard_id, reply) ==
    IF ~get_stream(router, shard_id)
    THEN [tag |-> "Ok", router |-> router, asked |-> FALSE]
    ELSE Let(init_message_exchange(memo, router, reply, shard_id), LAMBDA exchanged :
             [tag |-> exchanged.tag, router |-> exchanged.router, asked |-> TRUE])

\* A router that asks for the memory update whatever the backend returned.
send_query_to_shard_asking(memo, router, shard_id, query, update, outcome) ==
    IF ~contains_key(router.shards, shard_id)
    THEN [tag |-> "Ok", router |-> router, rows |-> <<>>, sent |-> FALSE, asked |-> FALSE]
    ELSE IF update
    THEN Let(ask_for_memory_update(memo, router, shard_id, outcome.reply),
             LAMBDA updated :
                 [tag |-> updated.tag, router |-> updated.router, rows |-> outcome.rows,
                  sent |-> TRUE, asked |-> updated.asked])
    ELSE [tag |-> "Ok", router |-> router, rows |-> outcome.rows, sent |-> TRUE,
          asked |-> FALSE]

\* send_query_to_shard: [tag, router, rows, sent, asked]; sent is whether
\* the query reached the shard's backend session.
send_query_to_shard(memo, router, shard_id, query, update, outcome) ==
    IF ~contains_key(router.shards, shard_id)
    THEN [tag |-> "Ok", router |-> router, rows |-> <<>>, sent |-> FALSE, asked |-> FALSE]
    ELSE IF ~outcome.ok
    THEN [tag |-> "Ok", router |-> router, rows |-> <<>>, sent |-> TRUE, asked |-> FALSE]
    ELSE IF update
    THEN Let(ask_for_memory_update(memo, router, shard_id, outcome.reply), LAMBDA updated :
             [tag |-> updated.tag, router |-> updated.router, rows |-> outcome.rows,
              sent |-> TRUE, asked |-> updated.asked])
    ELSE [tag |-> "Ok", router |-> router, rows |-> outcome.rows, sent |-> TRUE,
          asked |-> FALSE]

\* The for loop of send_query over the targets still to visit.  The
\* accumulator holds shards_responses (<<shard_id, rows>> of the shards that
\* returned rows), rows, and the log of what each visited shard was sent:
\* [shard, query, asked].
RECURSIVE send_to_shards(_, _, _, _, _, _, _)
send_to_shards(memo, router, shards, query, update, outcomes, acc) ==
    IF Len(shards) = 0 THEN [tag |-> "Ok", router |-> router, acc |-> acc]
    ELSE Let(send_query_to_shard(memo, router, shards[1], query, update,
                                 outcomes[shards[1]]),
             LAMBDA shard_response :
                 LET shard_id == shards[1]
                     logged == IF shard_response.sent
                               THEN Append(acc.log, [shard |-> shard_id, query |-> query,
                                                     asked |-> shard_response.asked])
                               ELSE acc.log
                 IN  IF shard_response.tag = "Panic"
                     THEN [tag |-> "Panic", router |-> shard_response.router,
                           acc |-> [acc EXCEPT !.log = logged]]
                     ELSE send_to_shards(
                              memo, shard_response.router, Tail(shards), query, update,
                              outcomes,
                              IF Len(shard_response.rows) # 0
                              THEN [shards_responses |->
                                        Append(acc.shards_responses,
                                               <<shard_id, shard_response.rows>>),
                                    rows |-> acc.rows \o shard_response.rows,
                                    log |-> logged]
                              ELSE [acc EXCEPT !.log = logged]))

\* NodeRole::send_query for Router: [tag, router, response, plan, log,
\* poisoned].  response is the Option<String> returned; tag "Panic" when the
\* call unwinds, poisoned telling whether it did so inside
\* send_query_to_shard, which holds the lock of the shards map.
send_query(memo, router, received_query, outcomes) ==
    Let(get_data_needed_from(memo, router, received_query), LAMBDA plan :
        IF IsPanic(plan)
        THEN [tag |-> "Panic", router |-> router, response |-> None, plan |-> plan,
              log |-> <<>>, poisoned |-> FALSE]
        ELSE IF Len(plan.shards) = 0
        THEN [tag |-> "Ok", router |-> router, response |-> None, plan |-> plan,
              log |-> <<>>, poisoned |-> FALSE]
        ELSE Let(send_to_shards(memo, router, plan.shards, plan.query, plan.update,
                                outcomes,
                                [shards_responses |-> <<>>, rows |-> <<>>, log |-> <<>>]),
                 LAMBDA done :
                     IF IsPanic(done)
                     THEN [tag |-> "Panic", router |-> done.router, response |-> None,
                           plan |-> plan, log |-> done.acc.log, poisoned |-> TRUE]
                     ELSE [tag |-> "Ok", router |-> done.router,
                           response |->
                               Some(IF query_is_select_of(memo, plan.query)
                                       /\ Len(done.acc.shards_responses) > 0
                                    THEN format_response(memo, done.router,
                                                         done.acc.shards_responses,
                                                         plan.query)
                                    ELSE rows_convert_to_string(done.acc.rows)),
                           plan |-> plan, log |-> done.acc.log, poisoned |-> FALSE]))

\* Router::get_response_message on the bytes read from a client's stream:
\* [tag, reply, called, sent], reply being the Option<String> that listen
\* writes back and sent the send_query result when one was made.
NotSent(router) ==
    [tag |-> "Ok", router |-> router, response |-> None, plan |-> PlanPanic,
     log |-> <<>>, poisoned |-> FALSE]

Answered(tag, reply, called, sent) ==
    [tag |-> tag, reply |-> reply, called |-> called, sent |-> sent]

get_response_message(memo, router, message, outcomes) ==
    IF Len(message) = 0 THEN Answered("Ok", None, FALSE, NotSent(router))
    ELSE Let(from_string_of(memo, message), LAMBDA parsed :
             IF parsed.tag = "Err" THEN Answered("Ok", None, FALSE, NotSent(router))
             ELSE IF parsed.tag = "Panic"
             THEN Answered("Panic", None, FALSE, NotSent(router))
             ELSE IF parsed.msg.message_type # "Query"
             THEN Answered("Ok", None, FALSE, NotSent(router))
             ELSE Let(get_data(parsed.msg).query, LAMBDA query :
                      IF IsNone(query) THEN Answered("Panic", None, FALSE, NotSent(router))
                      ELSE Let(send_query(memo, router, Unwrap(query), outcomes),
                               LAMBDA sent :
                                   Answered(sent.tag,
                                            IF IsSome(sent.response)
                                            THEN Some(to_string(new_query_response(
                                                          Unwrap(sent.response))))
                                            ELSE None,
                                            TRUE, sent))))

(***************************************************************************)
(* node/memory_manager.rs.  A filesystem reading is None when statvfs      *)
(* fails, else Some([total, available]) in KiB.  The percentage is an f64  *)
(* in the code; it is held here as the exact fraction num / den, with      *)
(* den >= 0, and den = 0 standing for NaN (the result of 0.0 / 0.0: the    *)
(* only division by zero the readings with available <= total lead to).    *)
(* The rounding of the f64 operations is left out.                         *)
(***************************************************************************)
Reading(total, available) == [total |-> total, available |-> available]

F64(num, den) == [num |-> num, den |-> den]
IsNaN(x) == x.den = 0
\* x > n and x < n on f64: both false when x is NaN.
f64_gt(x, n) == x.den > 0 /\ x.num > n * x.den
f64_lt(x, n) == x.den > 0 /\ x.num < n * x.den
\* The f64 as a message payload, for the whole numbers the shard model meets.
f64_payload(x) == x.num \div x.den

\* get_available_memory_percentage: Option<f64>.  With threshold_size =
\* total * unavailable / 100, the percentage
\*   (available - threshold_size) / (total - threshold_size / 100) * 100
\* is (100 * available - total * unavailable) * 10000
\*      / (10000 * total - total * unavailable).
get_available_memory_percentage(unavailable_memory_perc, stat) ==
    IF unavailable_memory_perc = 100 THEN Some(F64(0, 1))
    ELSE IF IsNone(stat) THEN None
    ELSE LET total == Unwrap(stat).total
             available == Unwrap(stat).available
         IN  IF total * unavailable_memory_perc > 100 * available THEN Some(F64(0, 1))
             ELSE Let(F64((100 * available - total * unavailable_memory_perc) * 10000,
                          10000 * total - total * unavailable_memory_perc),
                      LAMBDA percentage :
                          IF f64_gt(percentage, 100) THEN Some(F64(0, 1))
                          ELSE Some(percentage))

MemoryManager(unavailable_memory_perc, available_memory_perc) ==
    [unavailable_memory_perc |-> unavailable_memory_perc,
     available_memory_perc |-> available_memory_perc]

\* MemoryManager::new: no test of unavailable_memory_perc; the only panic is
\* that of a failed reading.
memory_manager_new(unavailable_memory_perc, stat) ==
    Let(get_available_memory_percentage(unavailable_memory_perc, stat),
        LAMBDA perc :
            IF IsNone(perc) THEN Panic
            ELSE Ok(MemoryManager(unavailable_memory_perc, Unwrap(perc))))

\* MemoryManager::update: the manager after the call; it is left as it was
\* when the reading fails (Err).
memory_manager_update(memory_manager, stat) ==
    Let(get_available_memory_percentage(memory_manager.unavailable_memory_perc, stat),
        LAMBDA perc :
            IF IsNone(perc) THEN memory_manager
            ELSE [memory_manager EXCEPT !.available_memory_perc = Unwrap(perc)])

(***************************************************************************)
(* node/shard.rs.  A Shard value is [memory_manager, router_info,          *)
(* tables_max_id].  Its backend is the environment's: for each table of    *)
(* BackendTables, in the order in which information_schema lists them,     *)
(* whether it is in the public schema and what SELECT MAX(id) returns for  *)
(* it: "absent", "no_id" (the query fails), "empty" (one row, NULL), or    *)
(* "rows" with the greatest id.                                            *)
(***************************************************************************)
Shard(memory_manager, router_info, tables_max_id) ==
    [memory_manager |-> memory_manager, router_info |-> router_info,
     tables_max_id |-> tables_max_id]

BackendTables == <<table_t, table_u>>

Absent == [kind |-> "absent", max |-> 0]
NoIdColumn == [kind |-> "no_id", max |-> 0]
EmptyTable == [kind |-> "empty", max |-> 0]
TableWithRows(max) == [kind |-> "rows", max |-> max]

\* Shard::get_all_tables
get_all_tables(backend) ==
    SelectSeq(BackendTables, LAMBDA table : backend[table].kind # "absent")

\* Shard::set_max_ids over the tables still to visit: a table whose MAX(id)
\* query fails is passed over, one whose MAX(id) is NULL is entered with 0.
RECURSIVE set_max_ids(_, _, _)
set_max_ids(tables_max_id, backend, tables) ==
    IF Len(tables) = 0 THEN tables_max_id
    ELSE set_max_ids(IF backend[tables[1]].kind = "no_id" THEN tables_max_id
                     ELSE tables_insert(tables_max_id, tables[1],
                                        IF backend[tables[1]].kind = "rows"
                                        THEN backend[tables[1]].max ELSE 0),
                     backend, Tail(tables))

\* Shard::update
shard_update(shard, backend, stat) ==
    [shard EXCEPT !.tables_max_id = set_max_ids(@, backend, get_all_tables(backend)),
                  !.memory_manager = memory_manager_update(@, stat)]

\* Shard::get_agreed_connection and Shard::get_memory_update_message, as
\* the message each encodes.
get_agreed_connection(shard) ==
    new_agreed(f64_payload(shard.memory_manager.available_memory_perc), shard.tables_max_id)

get_memory_update_message(shard) ==
    new_memory_update(f64_payload(shard.memory_manager.available_memory_perc),
                      shard.tables_max_id)

\* A shard that keeps the router it recorded first.
record_router_once(shard, router_info) ==
    IF IsSome(shard.router_info) THEN shard
    ELSE [shard EXCEPT !.router_info = Some(router_info)]

\* The router a shard records on INIT_CONNECTION (shard.rs, line 165): the
\* one named last replaces any other.
record_router(shard, router_info) == [shard EXCEPT !.router_info = Some(router_info)]

\* The result of Shard::get_response_message: [tag, shard, answer], answer
\* being the message whose text is returned, if one is; tag "Panic" when
\* the call unwinds.
Responded(shard, answer) == [tag |-> "Ok", shard |-> shard, answer |-> answer]
ShardPanic(shard) == [tag |-> "Panic", shard |-> shard, answer |-> None]

\* Shard::get_response_message on the text read from a control connection.
\* The node instance holds a clone of the shard that shares its backend,
\* memory manager and tables_max_id; busy says that this clone, inside
\* send_query, holds one of them at the moment the listener's try_lock
\* asks for it, and the unwrap of the refused lock panics.
shard_get_response_message(shard, backend, stat, busy, message) ==
    IF Len(message) = 0 THEN Responded(shard, None)
    ELSE Let(from_string(message), LAMBDA parsed :
             IF parsed.tag = "Err" THEN Responded(shard, None)
             ELSE IF parsed.tag = "Panic" THEN ShardPanic(shard)
             ELSE CASE parsed.msg.message_type = "InitConnection" ->
                          Let(get_data(parsed.msg).node_info, LAMBDA router_info :
                              IF IsNone(router_info) THEN ShardPanic(shard)
                              ELSE Let(record_router(shard, Unwrap(router_info)),
                                       LAMBDA recorded :
                                           IF busy THEN ShardPanic(recorded)
                                           ELSE Responded(recorded,
                                                          Some(get_agreed_connection(recorded)))))
                    [] parsed.msg.message_type = "AskMemoryUpdate" ->
                          IF busy THEN ShardPanic(shard)
                          ELSE Let(shard_update(shard, backend, stat), LAMBDA updated :
                                   Responded(updated,
                                             Some(get_memory_update_message(updated))))
                    [] parsed.msg.message_type = "GetRouter" ->
                          Responded(shard,
                                    Some(IF IsSome(shard.router_info)
                                         THEN new_router_id(Unwrap(shard.router_info))
                                         ELSE new_no_router_data))
                    [] OTHER -> Responded(shard, None))

(***************************************************************************)
(* A shard on its own: its control connections (Shard::listen), its own    *)
(* send_query, and the changes other sessions make to its backend.  The    *)
(* variable shard holds                                                    *)
(*   node      - the Shard value shared by the listener threads            *)
(*   backend   - the backend's tables                                      *)
(*   poisoned  - whether a listener thread unwound holding the shard       *)
(*   call      - what was done last: "new", "listen", "send_query",        *)
(*               "backend"                                                 *)
(*   connection, request - when call is "listen": the control connection   *)
(*               read and the message its peer had written                 *)
(*   answer, reply - when call is "listen": the message answered, if one   *)
(*               was, and its bytes                                        *)
(*   stat      - when call is "listen": the filesystem reading taken while *)
(*               the request was handled (None: statvfs failed, or none    *)
(*               was taken)                                                *)
(*   router    - the node_info of the INIT_CONNECTION handled last, as its *)
(*               sender wrote it, the connection it came on, and whether   *)
(*               it replaced another router                                *)
(***************************************************************************)
\* The number of control connections the shard has accepted.
NumConnections == 2

RouterInfos ==
    {NodeInfo(<<"1", "0", ".", "0", ".", "0", ".", "0">>, <<"5", "4", "3", "2">>),
     NodeInfo(<<"1", "0", ".", "0", ".", "0", ".", "9">>, <<"5", "4", "3", "9">>)}

\* The messages a peer writes on a control connection.
ShardRequests ==
    {new_init_connection(node_info) : node_info \in RouterInfos}
        \cup {new_ask_memory_update, new_get_router, new_denied}

\* unavailable_memory_perc of the shard's configuration, and the readings of
\* the filesystem.
ReservedPcts == {0, 100}
Stats == {None} \cup {Some(Reading(100, available)) : available \in {10, 50}}

TableStates == {Absent, NoIdColumn, EmptyTable, TableWithRows(1)}
\* The second table is there or not, and has no rows.
Backends ==
    {backend \in [ToSet(BackendTables) -> TableStates] :
        backend[table_u] \in {Absent, EmptyTable}}

NoShard ==
    [node |-> Shard(MemoryManager(0, F64(0, 1)), None, <<>>),
     backend |-> [table \in ToSet(BackendTables) |-> Absent],
     poisoned |-> FALSE, call |-> "none", connection |-> 0, request |-> new_denied,
     answer |-> None, reply |-> None, stat |-> None,
     router |-> [node_info |-> None, connection |-> 0, replaced |-> FALSE]]

\* Shard::new: MemoryManager::new panics when the reading fails, so a shard
\* exists only where it succeeded; shard.update() then fills tables_max_id.
NewShard(unavailable_memory_perc, stat, backend) ==
    shard_update(Shard(memory_manager_new(unavailable_memory_perc, stat).val, None, <<>>),
                 backend, stat)

(***************************************************************************)
(* node/client.rs: Client::new, the discovery of the router.  The nodes of *)
(* the configuration are [ip, port] with both fields as text.  What a      *)
(* probed node does is the environment's choice, a course                  *)
(*   [answer, channel]: answer as for the router's control channels        *)
(*   ("connect_fail", "no_reply", "closed" or a message), channel whether  *)
(*   the connection to the router named by a ROUTER_ID can be opened.      *)
(* The variable client holds                                               *)
(*   info    - the client's own ip and port                                *)
(*   nodes   - config.nodes                                                *)
(*   at      - the position in nodes of the next iteration of the loop     *)
(*   status  - "probing"; "connected" when Client::new returned; "fatal"   *)
(*             when it panicked after the loop (line 111); "panic_reply"   *)
(*             (line 71) and "panic_connect" (line 90) when it panicked    *)
(*             inside                                                      *)
(*   probed  - the positions of the nodes a connection was attempted to    *)
(*   courses - what each of them did                                       *)
(*   channel - the address router_postgres_client is connected to          *)
(***************************************************************************)
\* str::parse::<u64>: as parse_i64, without a minus sign.
parse_u64(s) == IF Len(s) > 0 /\ s[1] = "-" THEN None ELSE parse_i64(s)

Address(ip, port) == [ip |-> ip, port |-> port]

\* The address a node is probed at, and the test of line 39 that passes
\* over a node.
candidate(node) == Address(node.ip, Unwrap(parse_u64(node.port)) + 1000)
is_own_candidate(node, ip, port) ==
    candidate(node).ip = ip /\ NatToText(candidate(node).port) = port

Course(answer, channel) == [answer |-> answer, channel |-> channel]

\* One iteration of the loop of Client::new for a node that is not passed
\* over, and what the client is after it.
probe(c, course) ==
    Let([c EXCEPT !.at = @ + 1, !.probed = Append(@, c.at),
                  !.courses = Append(@, course)],
        LAMBDA next :
            IF course.answer.kind \in {"connect_fail", "no_reply"} THEN next
            ELSE Let(from_string(receive_buffer(ReplyOfAnswer(course.answer).wire)),
                     LAMBDA parsed :
                         IF parsed.tag # "Ok" THEN [next EXCEPT !.status = "panic_reply"]
                         ELSE IF parsed.msg.message_type # "RouterId" THEN next
                         ELSE Let(Unwrap(get_data(parsed.msg).node_info), LAMBDA node_info :
                                  IF ~course.channel
                                  THEN [next EXCEPT !.status = "panic_connect"]
                                  ELSE [next EXCEPT
                                           !.status = "connected",
                                           !.channel = Some(candidate(node_info))])))

IpA == <<"1", "0", ".", "0", ".", "0", ".", "1">>
IpB == <<"1", "0", ".", "0", ".", "0", ".", "2">>

\* The node lists of the client's configuration, the addresses a client
\* runs at (one listed in the configuration, one that is the address a
\* listed node is probed at, one that is neither), and the routers a shard
\* names.
ClientNodes == {NodeInfo(IpA, <<"5", "4", "3", "3">>), NodeInfo(IpB, <<"5", "4", "3", "4">>)}
ClientNodeLists ==
    {nodes \in [1..2 -> ClientNodes] : nodes[1] # nodes[2]}
ClientAddresses ==
    {NodeInfo(IpA, <<"5", "4", "3", "3">>), NodeInfo(IpA, <<"6", "4", "3", "3">>),
     NodeInfo(IpB, <<"7", "0", "0", "0">>)}

ProbeAnswers ==
    {Answer(k, new_denied) : k \in {"connect_fail", "no_reply", "closed"}}
        \cup {Answer("message", new_no_router_data)}
        \cup {Answer("message", new_router_id(r)) : r \in RouterInfos}
Courses == {Course(answer, channel) : answer \in ProbeAnswers, channel \in BOOLEAN}

NoClient ==
    [info |-> NodeInfo(<<>>, <<>>), nodes |-> <<>>, at |-> 1, status |-> "none",
     probed |-> <<>>, courses |-> <<>>, channel |-> None]

\* A stream on which nothing was written.
NoStream == [written |-> <<>>, pending |-> <<>>, reads |-> <<>>, read_since_write |-> TRUE]

NoMemory ==
    [call |-> "none", unavailable_memory_perc |-> 0, stat |-> None, perc |-> None,
     manager |-> None, panicked |-> FALSE]

NoPair ==
    [left |-> [router |-> Router(<<>>, <<>>, <<>>, <<>>), next_node |-> 1],
     right |-> [router |-> Router(<<>>, <<>>, <<>>, <<>>), next_node |-> 1],
     text |-> <<>>, plans |-> <<>>]

NoChannel ==
    [router |-> Router(<<>>, <<>>, <<>>, <<>>), phase |-> "startup", holder |-> "none",
     poisoned |-> FALSE, requests |-> <<>>, ends |-> <<>>, pending |-> <<>>,
     consumed |-> 0, reads |-> <<>>]

(***************************************************************************)
(* The state.                                                              *)
(*   config       - the node list of the configuration file                *)
(*   phase        - "startup" while Router::new configures the nodes,      *)
(*                  "serving" once it returned, "aborted" when it unwound  *)
(*   next_node    - the position in config of the next node to configure   *)
(*   router       - the Router value                                       *)
(*   poisoned     - the mutexes a panicking thread left poisoned: "router" *)
(*                  (the Arc<Mutex<Router>> the listener threads lock),    *)
(*                  "shards" (the backend-session map)                     *)
(*   handshake    - what the node configured last answered (startup only)  *)
(*   last         - the request served last and what was done for it       *)
(*   manager      - a ShardManager's heap, driven on its own               *)
(*   manager_call - the ShardManager call made last                        *)
(*   codec        - a message or a line and what became of it through the  *)
(*                  codec                                                  *)
(*   manager_last - the arguments of the ShardManager call made last, and  *)
(*                  the shard ids in the order in which they first entered *)
(*                  the heap                                               *)
(*   shard, client - a shard node and a client node, described where they  *)
(*                  are modelled                                           *)
(*   stream       - a TCP stream between two nodes, described where it is  *)
(*                  modelled                                               *)
(*   memory_state - a memory manager, described where it is modelled       *)
(*   pair         - two routers side by side, described where they are     *)
(*                  modelled                                               *)
(*   channel      - a control channel between the router and a shard,      *)
(*                  described where it is modelled                         *)
(*   merge        - a router that merges and then routes, described where  *)
(*                  it is modelled                                         *)
(*   race         - a ShardManager that one thread updates while another   *)
(*                  peeks, described where it is modelled                  *)
(*   served       - a shard and a router reading lines, described where    *)
(*                  they are modelled                                      *)
(*   workers      - the connection workers of a shard and the mutex they   *)
(*                  share, described where they are modelled               *)
(*   locks        - the locks of a router and the threads that take them,  *)
(*                  described where they are modelled                      *)
(***************************************************************************)
VARIABLES config, phase, next_node, router, poisoned, handshake, last,
          manager, manager_call, codec, manager_last, shard, client, stream, memory_state, pair,
          channel, merge, race, served, workers, locks

vars == <<config, phase, next_node, router, poisoned, handshake, last,
          manager, manager_call, codec, manager_last, shard, client, stream, memory_state, pair,
          channel, merge, race, served, workers, locks>>

routerVars == <<config, phase, next_node, router, poisoned, handshake, last>>

NoHandshake == [node |-> 0, port |-> "", answer |-> Answer("none", new_denied)]

Idle ==
    [entry |-> "none", received |-> <<>>, tag |-> "Ok", called |-> FALSE,
     replied |-> FALSE, response |-> None, targets |-> <<>>, query |-> <<>>,
     update |-> FALSE, log |-> <<>>, returned |-> <<>>]

NoCall == [memory |-> 0, shard_id |-> "", registered |-> <<>>]

NoCodec == [m |-> new_denied, wire |-> <<>>, decoded |-> [tag |-> "None", msg |-> new_denied]]

NoMerge ==
    [router |-> Router(<<>>, <<>>, <<>>, <<>>), next_node |-> 1, call |-> "none",
     last |-> Idle, logical |-> 0, plan |-> PlanPanic]

NoRace ==
    [heap |-> <<>>, pc |-> "idle", memory |-> 0, shard_id |-> "", before |-> <<>>,
     top |-> None, peeked |-> [pc |-> "none", result |-> None], comm_channels |-> {}]

NoLine == [at |-> "none", line |-> <<>>, tag |-> "Ok", replied |-> FALSE]

NoServed ==
    [shard |-> None, backend |-> [table \in ToSet(BackendTables) |-> Absent],
     router |-> Router(<<>>, <<>>, <<>>, <<>>), next_node |-> 1, poisoned |-> {},
     last |-> NoLine]

\* The control connections a shard accepts, and the messages their peers
\* write in all.
NumWorkers == 2
MaxArrivals == 2
Workers == 1..NumWorkers

NoWorkers ==
    [shard |-> None, backend |-> [table \in ToSet(BackendTables) |-> Absent],
     holder |-> 0, poisoned |-> FALSE,
     pc |-> [w \in Workers |-> "none"],
     connection |-> [w \in Workers |-> "none"],
     unread |-> [w \in Workers |-> <<>>],
     answered |-> [w \in Workers |-> FALSE],
     arrivals |-> 0]

\* The client connections of the router, each with its listener thread.
NumListeners == 2
Listeners == 1..NumListeners
\* The thread that calls send_query on the router of NODE_INSTANCE.
DirectCaller == 0
Threads == {DirectCaller} \cup Listeners

\* The locks of a router: the mutex around the Router the listeners share,
\* the mutex of each client stream, the mutex of the shards map, the RwLock
\* of comm_channels, the mutex of each shard's control stream, the mutex of
\* the heap of the shard manager.
RouterLock == <<"router", "">>
ClientStreamLock(c) == <<"client_stream", NatToText(c)>>
ShardsLock == <<"shards", "">>
CommChannelsLock == <<"comm_channels", "">>
ShardStreamLock(shard_id) == <<"shard_stream", shard_id>>
ShardManagerLock == <<"shard_manager", "">>
LockedShards == {PortNames[n] : n \in 1..NumNodes}
RouterLocks ==
    {RouterLock, ShardsLock, CommChannelsLock, ShardManagerLock}
        \cup {ClientStreamLock(c) : c \in Listeners}
        \cup {ShardStreamLock(shard_id) : shard_id \in LockedShards}

\* What a thread does to a lock; skip is the number of steps a refused
\* try_lock passes over.
LockOp(op, lock) == [op |-> op, lock |-> lock, skip |-> 0]
TryLockOp(lock, skip) == [op |-> "try_lock", lock |-> lock, skip |-> skip]
\* Steps that take no lock: an unwrap that panics, the backend executing a
\* query (or failing to: what is left of send_query_to_shard is passed
\* over), the exchange with a shard on its control stream, the read of a
\* listener.
PanicOp == LockOp("panic", RouterLock)
QueryOp(skip) == [op |-> "query", lock |-> ShardsLock, skip |-> skip]
ExchangeOp(shard_id) == LockOp("exchange", ShardStreamLock(shard_id))
ReadOp(c) == LockOp("read_client", ClientStreamLock(c))
Locked(lock, inside) == <<LockOp("lock", lock)>> \o inside \o <<LockOp("unlock", lock)>>

NoLocks ==
    [held |-> [lock \in RouterLocks |-> {}], poisoned |-> {},
     program |-> [t \in Threads |-> <<>>], dead |-> {}]

Init ==
    /\ config \in Configs
    /\ phase = "startup"
    /\ next_node = 1
    /\ router = Router(<<>>, <<>>, <<>>, <<>>)
    /\ poisoned = {}
    /\ handshake = NoHandshake
    /\ last = Idle
    /\ manager = <<>>
    /\ manager_call = "new"
    /\ codec = NoCodec
    /\ manager_last = NoCall
    /\ shard = NoShard
    /\ client = NoClient
    /\ stream = NoStream
    /\ memory_state = NoMemory
    /\ pair = NoPair
    /\ channel = NoChannel
    /\ merge = NoMerge
    /\ race = NoRace
    /\ served = NoServed
    /\ workers = NoWorkers
    /\ locks = NoLocks

(***************************************************************************)
(* Startup: Router::initialize_router_with_connections                     *)
(***************************************************************************)
IsSelf(node) == node.ip = RouterNode.ip /\ node.port = RouterNode.port

\* The loop passes over the router's own entry.
SkipSelf ==
    /\ phase = "startup"
    /\ next_node <= Len(config)
    /\ IsSelf(config[next_node])
    /\ next_node' = next_node + 1
    /\ UNCHANGED <<config, phase, router, poisoned, handshake, last,
                   manager, manager_call, codec, manager_last, shard, client, stream, memory_state, pair, channel, merge, race, served, workers, locks>>

\* One call of configure_shard_connection_to, with the node's part in it.
ConfigureShardConnection ==
    /\ phase = "startup"
    /\ next_node <= Len(config)
    /\ ~IsSelf(config[next_node])
    /\ \E course \in StartupCourses, memo \in {Memo} :
          \E configured \in {configure_shard_connection_to(
                                 memo, router, next_node, config[next_node].port,
                                 course.answer.kind # "connect_fail",
                                 course.answer.kind # "channel_fail",
                                 course.reply)} :
             /\ router' = configured.router
             /\ phase' = IF IsPanic(configured) THEN "aborted" ELSE phase
             /\ handshake' = [node |-> next_node, port |-> config[next_node].port,
                               answer |-> course.answer]
    /\ next_node' = next_node + 1
    /\ UNCHANGED <<config, poisoned, last, manager, manager_call, codec, manager_last, shard, client, stream, memory_state, pair, channel, merge, race, served, workers, locks>>

\* Router::new returns and the router starts to serve (wait_for_client,
\* NodeRole::send_query).
StartServing ==
    /\ phase = "startup"
    /\ next_node > Len(config)
    /\ phase' = "serving"
    /\ handshake' = NoHandshake
    /\ UNCHANGED <<config, next_node, router, poisoned, last,
                   manager, manager_call, codec, manager_last, shard, client, stream, memory_state, pair, channel, merge, race, served, workers, locks>>

(***************************************************************************)
(* Serving                                                                 *)
(***************************************************************************)
\* The outcomes the environment can choose for the targets of a plan.
OutcomesFor(memo, plan) ==
    [ToSet(plan.shards) ->
        ShardOutcomes[plan.tag = "Ok" /\ query_is_select_of(memo, plan.query), plan.update]]

\* What is kept of a request: how it came in, its text, whether send_query
\* was called and how it ended, whether listen wrote a reply, and from the
\* send_query result the response, the plan and the log, with what each
\* logged shard's backend returned and, where ASK_MEMORY_UPDATE was written,
\* the kind of reply that came ("reply", "no_reply"; "none" where it was not
\* written) and its bytes.
Exchange(entry, received, tag, called, replied, sent, outcomes) ==
    [entry |-> entry, received |-> received, tag |-> tag, called |-> called,
     replied |-> replied, response |-> sent.response,
     targets |-> sent.plan.shards, query |-> sent.plan.query,
     update |-> sent.plan.update, log |-> sent.log,
     returned |-> [k \in 1..Len(sent.log) |->
                      [ok |-> outcomes[sent.log[k].shard].ok,
                       rows |-> outcomes[sent.log[k].shard].rows,
                       reply |-> IF sent.log[k].asked
                                 THEN outcomes[sent.log[k].shard].reply.kind
                                 ELSE "none",
                       wire |-> IF sent.log[k].asked
                                THEN outcomes[sent.log[k].shard].reply.wire
                                ELSE <<>>]]]

\* One iteration of Router::listen that reads a client's QUERY: the bytes
\* are those Client::send_query wrote, as they lie in the zeroed buffer.
ClientQuery ==
    /\ phase = "serving"
    /\ poisoned = {}
    /\ last = Idle
    /\ \E text \in Queries, memo \in {Memo} :
          \E plan \in {get_data_needed_from(
                          memo, router,
                          Unwrap(get_data(from_string_of(
                                              memo, memo.client_messages[text]).msg).query))} :
             \E outcomes \in OutcomesFor(memo, plan) :
                \E response \in {get_response_message(memo, router,
                                                      memo.client_messages[text],
                                                      outcomes)} :
                   /\ router' = response.sent.router
                   /\ poisoned' = IF IsPanic(response)
                                  THEN {"router"} \cup (IF response.sent.poisoned
                                                        THEN {"shards"} ELSE {})
                                  ELSE poisoned
                   /\ last' = Exchange("client", text, response.tag, response.called,
                                       IsSome(response.reply), response.sent, outcomes)
    /\ UNCHANGED <<config, phase, next_node, handshake, manager, manager_call, codec, manager_last, shard, client, stream, memory_state, pair, channel, merge, race, served, workers, locks>>

\* A call of NodeRole::send_query on the router of this process
\* (get_node_role), with the query text as given.
DirectQuery ==
    /\ phase = "serving"
    /\ "shards" \notin poisoned
    /\ last = Idle
    /\ \E text \in Queries, memo \in {Memo} :
          \E plan \in {get_data_needed_from(memo, router, text)} :
             \E outcomes \in OutcomesFor(memo, plan) :
                \E sent \in {send_query(memo, router, text, outcomes)} :
                   /\ router' = sent.router
                   /\ poisoned' = IF sent.poisoned THEN poisoned \cup {"shards"}
                                  ELSE poisoned
                   /\ last' = Exchange("direct", text, sent.tag, TRUE, FALSE, sent,
                                       outcomes)
    /\ UNCHANGED <<config, phase, next_node, handshake, manager, manager_call, codec, manager_last, shard, client, stream, memory_state, pair, channel, merge, race, served, workers, locks>>

\* The request is over: listen loops, or send_query has returned to its
\* caller.
NextRequest ==
    /\ phase = "serving"
    /\ last # Idle
    /\ last' = Idle
    /\ UNCHANGED <<config, phase, next_node, router, poisoned, handshake,
                   manager, manager_call, codec, manager_last, shard, client, stream, memory_state, pair, channel, merge, race, served, workers, locks>>

Next ==
    \/ SkipSelf
    \/ ConfigureShardConnection
    \/ StartServing
    \/ ClientQuery
    \/ DirectQuery
    \/ NextRequest

Spec == Init /\ [][Next]_vars

(***************************************************************************)
(* A ShardManager on its own: any sequence of add_shard and                *)
(* update_shard_memory calls (shard_manager.rs, lines 20-82).              *)
(***************************************************************************)
\* The greatest number of entries the heap is grown to.
MaxHeapSize == 4

MemoryValues == {0, 10, 50}
ShardIds == {"5433", "5434", "5435"}

\* The shard ids in the order in which they first entered the heap.
Registered(registered, shard_id) ==
    IF \E i \in 1..Len(registered) : registered[i] = shard_id THEN registered
    ELSE Append(registered, shard_id)

Call(memory, shard_id, registered) ==
    [memory |-> memory, shard_id |-> shard_id, registered |-> registered]

AddShard ==
    /\ Len(manager) < MaxHeapSize
    /\ \E value \in MemoryValues, shard_id \in ShardIds :
          /\ manager' = add_shard(manager, value, shard_id)
          /\ manager_last' = Call(value, shard_id,
                                  Registered(manager_last.registered, shard_id))
    /\ manager_call' = "add_shard"
    /\ UNCHANGED <<routerVars, codec, shard, client, stream, memory_state, pair, channel, merge, race, served, workers, locks>>

\* update_shard_memory unwinds on an empty heap and leaves it as it was.
UpdateShardMemory ==
    /\ \E memory \in MemoryValues, shard_id \in ShardIds :
          \E updated \in {update_shard_memory(manager, memory, shard_id)} :
             /\ IsPanic(updated) \/ Len(updated.val) <= MaxHeapSize
             /\ manager' = IF IsPanic(updated) THEN manager ELSE updated.val
             /\ manager_call' = IF IsPanic(updated) THEN "panic"
                                ELSE "update_shard_memory"
             /\ manager_last' = Call(memory, shard_id,
                                     IF IsPanic(updated) THEN manager_last.registered
                                     ELSE Registered(manager_last.registered,
                                                     shard_id))
    /\ UNCHANGED <<routerVars, codec, shard, client, stream, memory_state, pair, channel, merge, race, served, workers, locks>>

HeapNext == AddShard \/ UpdateShardMemory

\* The router is left out: one configuration, never started.
LoneInit ==
    /\ Init
    /\ config = CHOOSE c \in Configs : TRUE

SpecHeap == LoneInit /\ [][HeapNext]_vars

(***************************************************************************)
(* The message codec on its own (messages/message.rs, lines 48-146 and     *)
(* 191-297): a message built by one of the ten constructors is encoded by  *)
(* to_string, and the text decoded by from_string.                         *)
(***************************************************************************)
CodecPayloads == {0, 10, 50, 100}
CodecTableInfos ==
    TableInfos \cup {<< <<table_t, 1>>, <<table_u, 2>> >>, << <<table_u, 2>>, <<table_t, 1>> >>}
CodecNodeInfos == {ClientInfo, NodeInfo(<<"1", "0", ".", "0", ".", "0", ".", "1">>,
                                        <<"5", "4", "3", "3">>)}
text_select_1 == <<"S","E","L","E","C","T"," ","1">>
text_rows == <<"i","d"," ","|"," ","v"," ","|"," ","NUL","1"," ","|"," ","7"," ","|"," ","NUL">>
CodecTexts == Queries \cup {text_select_1, text_rows, <<>>}

Messages ==
    {new_init_connection(node_info) : node_info \in CodecNodeInfos}
        \cup {new_ask_memory_update, new_denied, new_get_router, new_no_router_data}
        \cup {new_memory_update(payload, max_ids) :
                 payload \in CodecPayloads, max_ids \in CodecTableInfos}
        \cup {new_agreed(payload, max_ids) :
                 payload \in CodecPayloads, max_ids \in CodecTableInfos}
        \cup {new_router_id(node_info) : node_info \in CodecNodeInfos}
        \cup {new_query(Some(node_info), query) :
                 node_info \in CodecNodeInfos, query \in CodecTexts}
        \cup {new_query_response(text) : text \in CodecTexts}

CodecInit == LoneInit

\* A constructor builds the message.
Construct ==
    /\ codec = NoCodec
    /\ \E m \in Messages : codec' = [NoCodec EXCEPT !.m = m, !.decoded.tag = "Built"]
    /\ UNCHANGED <<routerVars, manager, manager_call, manager_last, shard, client, stream, memory_state, pair, channel, merge, race, served, workers, locks>>

Encode ==
    /\ codec.decoded.tag = "Built"
    /\ codec' = [codec EXCEPT !.wire = to_string(codec.m), !.decoded.tag = "Encoded"]
    /\ UNCHANGED <<routerVars, manager, manager_call, manager_last, shard, client, stream, memory_state, pair, channel, merge, race, served, workers, locks>>

Decode ==
    /\ codec.decoded.tag \in {"Encoded", "Arrived"}
    /\ codec' = [codec EXCEPT !.decoded = from_string(codec.wire)]
    /\ UNCHANGED <<routerVars, manager, manager_call, manager_last, shard, client, stream, memory_state, pair, channel, merge, race, served, workers, locks>>

CodecNext == Construct \/ Encode \/ Decode

SpecCodec == CodecInit /\ [][CodecNext]_vars

(***************************************************************************)
(* The decoder on the lines a peer may write: a type token, then the       *)
(* payload, max_ids and node_info fields, each well formed, None or        *)
(* malformed, then None for the query.                                     *)
(***************************************************************************)
TypeTokens ==
    {TypeText("Agreed"), TypeText("MemoryUpdate"), TypeText("RouterId"),
     <<"H", "E", "L", "L", "O">>}
PayloadFields == {NoneText, <<"1", "0">>, <<"x">>}
MaxIdsFields == {NoneText, <<"t", ":", "1">>, <<"t">>, <<"t", ":", "x">>}
NodeInfoFields == {NoneText, <<"a", ":", "1">>, <<"a">>}

Line(type, payload, max_ids, node_info) ==
    join(<<type, payload, max_ids, node_info, NoneText>>, <<" ">>) \o <<"LF">>

Lines ==
    {Line(type, payload, max_ids, node_info) :
        type \in TypeTokens, payload \in PayloadFields, max_ids \in MaxIdsFields,
        node_info \in NodeInfoFields}

\* A line arrives on a stream.
Arrive ==
    /\ codec = NoCodec
    /\ \E line \in Lines : codec' = [NoCodec EXCEPT !.wire = line, !.decoded.tag = "Arrived"]
    /\ UNCHANGED <<routerVars, manager, manager_call, manager_last, shard, client, stream, memory_state, pair, channel, merge, race, served, workers, locks>>

DecodeNext == Arrive \/ Decode

SpecDecode == CodecInit /\ [][DecodeNext]_vars

(***************************************************************************)
(* The shard node and the client node as processes.                        *)
(***************************************************************************)
ShardInit ==
    /\ config = CHOOSE c \in Configs : TRUE
    /\ phase = "startup"
    /\ next_node = 1
    /\ router = Router(<<>>, <<>>, <<>>, <<>>)
    /\ poisoned = {}
    /\ handshake = NoHandshake
    /\ last = Idle
    /\ manager = <<>>
    /\ manager_call = "new"
    /\ codec = NoCodec
    /\ manager_last = NoCall
    /\ client = NoClient
    /\ stream = NoStream
    /\ memory_state = NoMemory
    /\ pair = NoPair
    /\ channel = NoChannel
    /\ merge = NoMerge
    /\ race = NoRace
    /\ served = NoServed
    /\ workers = NoWorkers
    /\ locks = NoLocks
    /\ \E unavailable_memory_perc \in ReservedPcts, stat \in Stats \ {None},
          backend \in Backends :
          shard = [NoShard EXCEPT
                      !.node = NewShard(unavailable_memory_perc, stat, backend),
                      !.backend = backend, !.call = "new"]

\* One iteration of Shard::listen that reads a message: the bytes are those
\* the peer wrote, as they lie in the zeroed buffer; the answer, if there is
\* one, is written back.  A thread that unwinds leaves the shard's mutex
\* poisoned, and every listener thread then unwinds at its next lock().
ShardListen ==
    /\ ~shard.poisoned
    /\ \E connection \in 1..NumConnections, request \in ShardRequests,
          stat \in Stats, busy \in BOOLEAN :
          \* the filesystem is read for ASK_MEMORY_UPDATE only, and GET_ROUTER
          \* asks for no lock that the node instance shares
          /\ request.message_type # "AskMemoryUpdate" => stat = None
          /\ request.message_type \notin {"InitConnection", "AskMemoryUpdate"} => ~busy
          \* the refused try_lock comes before statvfs is called
          /\ busy => stat = None
          /\ \E response \in {shard_get_response_message(
                                  shard.node, shard.backend, stat, busy,
                                  receive_buffer(to_string(request)))} :
                shard' = [shard EXCEPT
                             !.node = response.shard,
                             !.poisoned = IsPanic(response),
                             !.call = "listen",
                             !.connection = connection,
                             !.request = request,
                             !.answer = response.answer,
                             !.stat = stat,
                             !.reply = IF IsSome(response.answer)
                                       THEN Some(to_string(Unwrap(response.answer)))
                                       ELSE None,
                             !.router = IF request.message_type = "InitConnection"
                                        THEN [node_info |-> request.node_info,
                                              connection |-> connection,
                                              replaced |-> IsSome(shard.router.node_info)
                                                              /\ shard.router.node_info
                                                                    # request.node_info]
                                        ELSE @]
    /\ UNCHANGED <<routerVars, manager, manager_call, codec, manager_last, client, stream, memory_state, pair, channel, merge, race, served, workers, locks>>

\* NodeRole::send_query for Shard: the query is executed on the backend;
\* when it returns rows the shard updates itself.
ShardSendQuery ==
    /\ \E returned_rows \in BOOLEAN, stat \in Stats :
          shard' = [shard EXCEPT
                       !.node = IF returned_rows
                                THEN shard_update(@, shard.backend, stat) ELSE @,
                       !.call = "send_query", !.connection = 0,
                       !.request = new_denied, !.answer = None, !.reply = None,
                       !.stat = None]
    /\ UNCHANGED <<routerVars, manager, manager_call, codec, manager_last, client, stream, memory_state, pair, channel, merge, race, served, workers, locks>>

\* Another session (the router's) creates, drops, fills or empties a table
\* of the backend.
BackendChange ==
    /\ \E backend \in Backends :
          /\ Cardinality({table \in ToSet(BackendTables) :
                              backend[table] # shard.backend[table]}) = 1
          /\ shard' = [shard EXCEPT
                          !.backend = backend, !.call = "backend", !.connection = 0,
                          !.request = new_denied, !.answer = None, !.reply = None,
                       !.stat = None]
    /\ UNCHANGED <<routerVars, manager, manager_call, codec, manager_last, client, stream, memory_state, pair, channel, merge, race, served, workers, locks>>

ShardNext == ShardListen \/ ShardSendQuery \/ BackendChange

SpecShard == ShardInit /\ [][ShardNext]_vars

ClientInit ==
    /\ config = CHOOSE c \in Configs : TRUE
    /\ phase = "startup"
    /\ next_node = 1
    /\ router = Router(<<>>, <<>>, <<>>, <<>>)
    /\ poisoned = {}
    /\ handshake = NoHandshake
    /\ last = Idle
    /\ manager = <<>>
    /\ manager_call = "new"
    /\ codec = NoCodec
    /\ manager_last = NoCall
    /\ shard = NoShard
    /\ stream = NoStream
    /\ memory_state = NoMemory
    /\ pair = NoPair
    /\ channel = NoChannel
    /\ merge = NoMerge
    /\ race = NoRace
    /\ served = NoServed
    /\ workers = NoWorkers
    /\ locks = NoLocks
    /\ \E info \in ClientAddresses, nodes \in ClientNodeLists :
          client = [NoClient EXCEPT !.info = info, !.nodes = nodes, !.status = "probing"]

\* The loop passes over a node whose candidate address is the client's own.
ClientSkip ==
    /\ client.status = "probing"
    /\ client.at <= Len(client.nodes)
    /\ is_own_candidate(client.nodes[client.at], client.info.ip, client.info.port)
    /\ client' = [client EXCEPT !.at = @ + 1]
    /\ UNCHANGED <<routerVars, manager, manager_call, codec, manager_last, shard, stream, memory_state, pair, channel, merge, race, served, workers, locks>>

\* It probes any other node.
ClientProbe ==
    /\ client.status = "probing"
    /\ client.at <= Len(client.nodes)
    /\ ~is_own_candidate(client.nodes[client.at], client.info.ip, client.info.port)
    /\ \E course \in Courses :
          /\ course.channel \/ (course.answer.kind = "message"
                                   /\ course.answer.msg.message_type = "RouterId")
          /\ client' = probe(client, course)
    /\ UNCHANGED <<routerVars, manager, manager_call, codec, manager_last, shard, stream, memory_state, pair, channel, merge, race, served, workers, locks>>

\* After the loop: panic!("No valid router found in the config").
ClientExhausted ==
    /\ client.status = "probing"
    /\ client.at > Len(client.nodes)
    /\ client' = [client EXCEPT !.status = "fatal"]
    /\ UNCHANGED <<routerVars, manager, manager_call, codec, manager_last, shard, stream, memory_state, pair, channel, merge, race, served, workers, locks>>

ClientNext == ClientSkip \/ ClientProbe \/ ClientExhausted

SpecClient == ClientInit /\ [][ClientNext]_vars

(***************************************************************************)
(* A TCP stream from a sender to a receiver that reads it into a buffer of *)
(* BufferSize bytes (router.rs line 79, shard.rs line 113, client.rs line  *)
(* 132).  The sender writes message.to_string() whole; one read returns    *)
(* the bytes that are there, as many as the buffer takes, and leaves the   *)
(* rest on the stream.  The variable stream holds                          *)
(*   written  - the messages written, in order                             *)
(*   pending  - the bytes written and not read yet                         *)
(*   reads    - for each read: whether the bytes read were the text of one *)
(*              written message, whole, and what from_string made of the   *)
(*              buffer                                                     *)
(*   read_since_write - whether the receiver has read since the last write *)
(***************************************************************************)
BufferSize == 1024

\* The greatest number of messages written to the stream.
MaxWrites == 2

Filler(n) == [i \in 1..n |-> "x"]

\* A query whose message is longer than the buffer, and one whose message
\* has the text of another message behind the first BufferSize bytes.
query_long == <<"S","E","L","E","C","T"," ","'">> \o Filler(BufferSize) \o <<"'",";">>
query_long_then_drop ==
    Let(to_string(new_query(Some(ClientInfo), query_drop)), LAMBDA inner :
        Let(to_string(new_query(Some(ClientInfo), <<"S","E","L","E","C","T"," ">>)),
            LAMBDA outer :
                <<"S","E","L","E","C","T"," ">> \o Filler(BufferSize - Len(outer)) \o <<" ">>
                    \o SubSeq(inner, 1, Len(inner) - 1)))

StreamMessages ==
    {new_query(Some(ClientInfo), query) :
        query \in {query_select_all, query_drop, query_long, query_long_then_drop}}
        \cup {new_query_response(text) : text \in {text_rows, query_long}}

\* The buffer after a read: the bytes read, then the zeros it was filled
\* with.
buffer_after_read(bytes) ==
    IF Len(bytes) < BufferSize THEN receive_buffer(bytes) ELSE bytes

StreamInit ==
    /\ config = CHOOSE c \in Configs : TRUE
    /\ phase = "startup"
    /\ next_node = 1
    /\ router = Router(<<>>, <<>>, <<>>, <<>>)
    /\ poisoned = {}
    /\ handshake = NoHandshake
    /\ last = Idle
    /\ manager = <<>>
    /\ manager_call = "new"
    /\ codec = NoCodec
    /\ manager_last = NoCall
    /\ shard = NoShard
    /\ client = NoClient
    /\ stream = NoStream
    /\ memory_state = NoMemory
    /\ pair = NoPair
    /\ channel = NoChannel
    /\ merge = NoMerge
    /\ race = NoRace
    /\ served = NoServed
    /\ workers = NoWorkers
    /\ locks = NoLocks

\* stream.write_all(message.to_string().as_bytes()): the sender writes its
\* next message once the receiver has read.
StreamWrite ==
    /\ Len(stream.written) < MaxWrites
    /\ stream.read_since_write
    /\ \E m \in StreamMessages :
          stream' = [stream EXCEPT !.written = Append(@, m),
                                   !.pending = @ \o to_string(m),
                                   !.read_since_write = FALSE]
    /\ UNCHANGED <<routerVars, manager, manager_call, codec, manager_last, shard, client, memory_state, pair, channel, merge, race, served, workers, locks>>

\* stream.read(&mut buffer) and Message::from_string on the buffer.
StreamRead ==
    /\ Len(stream.pending) > 0
    /\ \E n \in {IF Len(stream.pending) < BufferSize THEN Len(stream.pending)
                 ELSE BufferSize} :
          \E bytes \in {SubSeq(stream.pending, 1, n)} :
             stream' = [stream EXCEPT
                           !.pending = SubSeq(@, n + 1, Len(@)),
                           !.reads = Append(@, [whole |-> \E k \in 1..Len(stream.written) :
                                                             to_string(stream.written[k]) = bytes,
                                                decoded |-> from_string(buffer_after_read(bytes))]),
                           !.read_since_write = TRUE]
    /\ UNCHANGED <<routerVars, manager, manager_call, codec, manager_last, shard, client, memory_state, pair, channel, merge, race, served, workers, locks>>

StreamNext == StreamWrite \/ StreamRead

SpecStream == StreamInit /\ [][StreamNext]_vars

(***************************************************************************)
(* The memory manager on its own (node/memory_manager.rs).  memory_state is *)
(* [call, unavailable_memory_perc, stat, perc, manager, panicked]: the     *)
(* last call ("none", "new", "update"), the percentage it was made with,   *)
(* the filesystem reading it took, what get_available_memory_percentage    *)
(* returned in it, the manager there is (None before new and when new      *)
(* panicked) and whether the call panicked.  unavailable_memory_perc is    *)
(* any f64 of the configuration file, also one outside 0..100; a reading   *)
(* has available <= total, total = 0 included.                             *)
(***************************************************************************)
UnavailablePercs == {-10, 0, 10, 50, 90, 100, 101, 150}
Sizes == {0, 1, 3, 10, 50, 100, 200}
Readings ==
    {None} \cup {Some(Reading(size[1], size[2])) :
                    size \in {s \in Sizes \X Sizes : s[2] <= s[1]}}

MemoryInit == LoneInit

\* MemoryManager::new(unavailable_memory_perc)
MemoryNew ==
    /\ memory_state.call = "none"
    /\ \E unavailable_memory_perc \in UnavailablePercs, stat \in Readings :
          \E result \in {memory_manager_new(unavailable_memory_perc, stat)} :
              memory_state' = [call |-> "new",
                         unavailable_memory_perc |-> unavailable_memory_perc,
                         stat |-> stat,
                         perc |-> get_available_memory_percentage(unavailable_memory_perc,
                                                                  stat),
                         manager |-> IF IsPanic(result) THEN None ELSE Some(result.val),
                         panicked |-> IsPanic(result)]
    /\ UNCHANGED <<routerVars, manager, manager_call, codec, manager_last, shard, client, stream, pair, channel, merge, race, served, workers, locks>>

\* MemoryManager::update on the manager that new returned
MemoryUpdate ==
    /\ IsSome(memory_state.manager)
    /\ \E stat \in Readings :
          memory_state' = [memory_state EXCEPT
                        !.call = "update",
                        !.stat = stat,
                        !.perc = get_available_memory_percentage(
                                     Unwrap(memory_state.manager).unavailable_memory_perc, stat),
                        !.manager = Some(memory_manager_update(Unwrap(@), stat))]
    /\ UNCHANGED <<routerVars, manager, manager_call, codec, manager_last, shard, client, stream, pair, channel, merge, race, served, workers, locks>>

MemoryNext == MemoryNew \/ MemoryUpdate

SpecMemory == MemoryInit /\ [][MemoryNext]_vars

(***************************************************************************)
(* Two executions of the router side by side, for what target selection    *)
(* depends on.  pair is [left, right, text, plans]: each side is a router  *)
(* being started, [router, next_node], on a configuration of its own with  *)
(* PairNodes nodes, the node n on the port PortNames[n] or on the port of  *)
(* node 1; once both have started, the same query text is given to         *)
(* get_data_needed_from on either side and plans holds the two results.    *)
(***************************************************************************)
PairNodes == 3
Sides == {"left", "right"}
PairTableInfos == {<< <<table_t, n>> >> : n \in 1..MaxId}
\* The courses of a node's configuration that return: no backend session,
\* no control channel, or AGREED.
PairCourses ==
    {course \in StartupCourses :
        \/ course.answer.kind \in {"connect_fail", "channel_fail"}
        \/ /\ course.answer.kind = "message"
           /\ course.answer.msg.message_type = "Agreed"
           /\ Unwrap(course.answer.msg.max_ids) \in PairTableInfos}

PairInit == LoneInit

\* One call of configure_shard_connection_to on one side.
PairConfigure ==
    /\ pair.plans = <<>>
    /\ \E side \in Sides, course \in PairCourses, memo \in {Memo} :
          /\ pair[side].next_node <= PairNodes
          /\ \E port \in {PortNames[pair[side].next_node], PortNames[1]} :
                \E configured \in {configure_shard_connection_to(
                                       memo, pair[side].router, pair[side].next_node, port,
                                       course.answer.kind # "connect_fail",
                                       course.answer.kind # "channel_fail",
                                       course.reply)} :
                   pair' = [pair EXCEPT ![side] = [router |-> configured.router,
                                                   next_node |-> @.next_node + 1]]
    /\ UNCHANGED <<routerVars, manager, manager_call, codec, manager_last, shard, client, stream, memory_state, channel, merge, race, served, workers, locks>>

\* What the selection reads of a router, by the fields of Router: the keys
\* of shards in their order, the heap and the snapshots.
SelectionInputs(r) ==
    <<[i \in 1..Len(r.shards) |-> r.shards[i].id], r.shard_manager, r.max_ids>>

\* get_data_needed_from with the same text on both sides, once both have
\* started and stand with the same directory, heap and snapshots.
PairSelect ==
    /\ pair.plans = <<>>
    /\ pair.left.next_node > PairNodes
    /\ pair.right.next_node > PairNodes
    /\ SelectionInputs(pair.left.router) = SelectionInputs(pair.right.router)
    /\ \E text \in Queries, memo \in {Memo} :
          pair' = [pair EXCEPT
                      !.text = text,
                      !.plans = <<get_data_needed_from(memo, pair.left.router, text),
                                  get_data_needed_from(memo, pair.right.router, text)>>]
    /\ UNCHANGED <<routerVars, manager, manager_call, codec, manager_last, shard, client, stream, memory_state, channel, merge, race, served, workers, locks>>

PairNext == PairConfigure \/ PairSelect

SpecPair == PairInit /\ [][PairNext]_vars

(***************************************************************************)
(* One control channel between the router and a shard (router.rs, lines    *)
(* 221-263 and 524-592).  channel is                                       *)
(*   router    - the router                                                *)
(*   phase     - "startup" (the handshake), "serving", or "closed" (the    *)
(*               handshake failed and the channel was dropped)             *)
(*   holder    - the caller that holds the stream's lock, between its      *)
(*               write and its read: "startup", a serving caller, "none"   *)
(*   poisoned  - whether a caller unwound holding the locks                *)
(*   requests  - the requests written, [caller, message_type]              *)
(*   ends      - for each request the shard has answered, in order, the    *)
(*               position in the stream of the last byte of its reply      *)
(*   pending   - the bytes the shard wrote that the router has not read    *)
(*   consumed  - the number of bytes the router has read                   *)
(*   reads     - the reads: [request, first, last], the request of the     *)
(*               caller and the positions of the bytes it read             *)
(* A serving caller (a listener thread, or the host through the node       *)
(* instance) holds the lock of the shards map while it holds the stream's. *)
(***************************************************************************)
\* The greatest number of requests written to the channel.
MaxRequests == 4

ChannelPort == PortNames[1]
Callers == {"listener", "host"}

\* A mapping whose encoding in MEMORY_UPDATE ends behind the buffer: the
\* buffer ends within the last max id.
long_table ==
    Filler(BufferSize - Len(TypeText("MemoryUpdate") \o <<" ", "1", "0", " ">>
                                \o <<":", "1", ",", "t", ":", "1">>))
long_info == << <<long_table, 1>>, <<table_t, 12>> >>

\* What the shard answers: AGREED to INIT_CONNECTION, MEMORY_UPDATE to
\* ASK_MEMORY_UPDATE.
ChannelReplies(message_type) ==
    IF message_type = "InitConnection" THEN {new_agreed(50, << <<table_t, 1>> >>)}
    ELSE {new_memory_update(10, info) : info \in {<< <<table_t, 1>> >>, long_info}}

\* The decoding of the buffer that a read of these bytes leaves, for the
\* handlers, which look it up by the bytes read.
BufferMemo(bytes) ==
    [from_string |-> [input \in {receive_buffer(bytes)} |->
                         from_string(buffer_after_read(bytes))]]

ChannelInit == LoneInit

\* The caller takes the stream's lock and writes its request:
\* send_init_connection_message at startup, ask_for_memory_update (inside
\* send_query_to_shard) when serving.
ChannelRequest ==
    /\ channel.holder = "none"
    /\ ~channel.poisoned
    /\ Len(channel.requests) < MaxRequests
    /\ \/ /\ channel.phase = "startup"
          /\ channel.requests = <<>>
          /\ channel' = [channel EXCEPT
                            !.router = save_shard_client(@, ChannelPort, 1),
                            !.holder = "startup",
                            !.requests = Append(@, [caller |-> "startup",
                                                    message_type |-> "InitConnection"])]
       \/ /\ channel.phase = "serving"
          /\ get_stream(channel.router, ChannelPort)
          /\ \E caller \in Callers :
                channel' = [channel EXCEPT
                               !.holder = caller,
                               !.requests = Append(@, [caller |-> caller,
                                                       message_type |-> "AskMemoryUpdate"])]
    /\ UNCHANGED <<routerVars, manager, manager_call, codec, manager_last, shard, client, stream, memory_state, pair, merge, race, served, workers, locks>>

\* The shard reads the next request and writes its reply (Shard::listen).
ShardAnswer ==
    /\ Len(channel.ends) < Len(channel.requests)
    /\ \E reply \in ChannelReplies(channel.requests[Len(channel.ends) + 1].message_type) :
          \E bytes \in {to_string(reply)} :
             channel' = [channel EXCEPT
                            !.pending = @ \o bytes,
                            !.ends = Append(@, channel.consumed + Len(channel.pending)
                                                  + Len(bytes))]
    /\ UNCHANGED <<routerVars, manager, manager_call, codec, manager_last, shard, client, stream, memory_state, pair, merge, race, served, workers, locks>>

\* What the holder does with what its read returned (reply: NoReply, or the
\* bytes read): [tag, router, result].
channel_exchange(r, holder, bytes, reply) ==
    IF holder = "startup"
    THEN set_health_connection(BufferMemo(bytes), r, 1, ChannelPort, TRUE, reply)
    ELSE Let(ask_for_memory_update(BufferMemo(bytes), r, ChannelPort, reply),
             LAMBDA asked : [tag |-> asked.tag, router |-> asked.router, result |-> TRUE])

ChannelDone(exchanged) ==
    [channel EXCEPT
        !.router = exchanged.router,
        !.holder = "none",
        !.phase = IF channel.holder # "startup" THEN @
                  ELSE IF ~IsPanic(exchanged) /\ exchanged.result THEN "serving"
                  ELSE "closed",
        !.poisoned = channel.holder # "startup" /\ IsPanic(exchanged)]

\* The holder's read returns the bytes that have arrived, at most
\* BufferSize of them; the reply is decoded and handled, and the lock
\* released.
ChannelRead ==
    /\ channel.holder # "none"
    /\ Len(channel.pending) > 0
    /\ \E n \in {IF Len(channel.pending) < BufferSize THEN Len(channel.pending)
                 ELSE BufferSize} :
          \E bytes \in {SubSeq(channel.pending, 1, n)} :
             \E exchanged \in {channel_exchange(channel.router, channel.holder, bytes,
                                                ReplyOf(bytes))} :
                channel' = [ChannelDone(exchanged) EXCEPT
                               !.pending = SubSeq(@, n + 1, Len(@)),
                               !.consumed = @ + n,
                               !.reads = Append(@, [request |-> Len(channel.requests),
                                                    first |-> channel.consumed + 1,
                                                    last |-> channel.consumed + n])]
    /\ UNCHANGED <<routerVars, manager, manager_call, codec, manager_last, shard, client, stream, memory_state, pair, merge, race, served, workers, locks>>

\* Nothing arrives within the read timeout.
ChannelTimeout ==
    /\ channel.holder # "none"
    /\ Len(channel.pending) = 0
    /\ \E exchanged \in {channel_exchange(channel.router, channel.holder, <<>>, NoReply)} :
          channel' = ChannelDone(exchanged)
    /\ UNCHANGED <<routerVars, manager, manager_call, codec, manager_last, shard, client, stream, memory_state, pair, merge, race, served, workers, locks>>

ChannelNext == ChannelRequest \/ ShardAnswer \/ ChannelRead \/ ChannelTimeout

SpecChannel == ChannelInit /\ [][ChannelNext]_vars

(***************************************************************************)
(* Merging and routing on one router, for the logical ids.  merge is       *)
(* [router, next_node, call, last, logical, plan]: a router that is        *)
(* started on MergeNodes nodes, each on a port of its own and each         *)
(* answering INIT_CONNECTION with AGREED and its max id for table t; then  *)
(* (call "select") a fan-out SELECT on t is served, last keeping it as the *)
(* variable last does; then (call "route") get_data_needed_from is given   *)
(* `SELECT * FROM t WHERE id = L;` for some L, logical, and plan holds the *)
(* result.  The snapshots are current: a shard's rows have ids of          *)
(* 1..max, the greatest being max, and none when max is 0.                 *)
(***************************************************************************)
MergeNodes == 3

\* The logical ids a merged response can show.
LogicalIds == 1..(MergeNodes * MaxId)

WhereIdText(n) ==
    <<"S","E","L","E","C","T"," ","*"," ","F","R","O","M"," ","t"," ","W","H","E","R","E"," ","i","d"," ","="," ">>
        \o NatToText(n) \o <<";">>

\* The text functions on the queries `SELECT * FROM t WHERE id = L;`.
WhereIdMemo ==
    [new_id |-> [query \in {WhereIdText(n) : n \in LogicalIds} |->
                    [new_id \in LogicalIds |-> format_query_with_new_id(query, new_id)]],
     query |-> QueryTable({WhereIdText(n) : n \in LogicalIds})]

\* The AGREED answers of the nodes.
MergeCourses ==
    {course \in StartupCourses :
        /\ course.answer.kind = "message"
        /\ course.answer.msg.message_type = "Agreed"
        /\ Unwrap(course.answer.msg.payload) = 10
        /\ \E n \in 0..MaxId : Unwrap(course.answer.msg.max_ids) = << <<table_t, n>> >>}

\* What SELECT * FROM t returns on a shard whose greatest id is max.
RowsUpTo(max) ==
    {SelectSeq([i \in 1..max |-> Row(<<column_id, column_v>>, <<i, 7>>)],
               LAMBDA row : row.values[1] \in ids) :
        ids \in {chosen \in SUBSET (1..max) : max > 0 => max \in chosen}}

MergeInit == LoneInit

\* One call of configure_shard_connection_to.
MergeConfigure ==
    /\ merge.next_node <= MergeNodes
    /\ \E course \in MergeCourses, memo \in {Memo} :
          \E configured \in {configure_shard_connection_to(
                                 memo, merge.router, merge.next_node,
                                 PortNames[merge.next_node], TRUE, TRUE, course.reply)} :
             merge' = [merge EXCEPT !.router = configured.router,
                                    !.next_node = @ + 1]
    /\ UNCHANGED <<routerVars, manager, manager_call, codec, manager_last, shard, client, stream, memory_state, pair, channel, race, served, workers, locks>>

\* send_query with SELECT * FROM t, every backend returning its rows.
MergeSelect ==
    /\ merge.next_node > MergeNodes
    /\ merge.call = "none"
    /\ \E memo \in {Memo} :
          \E outcomes \in {o \in [ToSet(keys(merge.router.shards)) ->
                                     {ShardOutcome(TRUE, rows, NoReply) :
                                         rows \in UNION {RowsUpTo(n) : n \in 0..MaxId}}] :
                              \A shard_id \in DOMAIN o :
                                  o[shard_id].rows
                                     \in RowsUpTo(Unwrap(get_max_ids_for_shard_table(
                                                      merge.router.max_ids, shard_id,
                                                      table_t)))} :
             \E sent \in {send_query(memo, merge.router, query_select_all, outcomes)} :
                merge' = [merge EXCEPT
                             !.router = sent.router,
                             !.call = "select",
                             !.last = Exchange("direct", query_select_all, sent.tag, TRUE,
                                               FALSE, sent, outcomes)]
    /\ UNCHANGED <<routerVars, manager, manager_call, codec, manager_last, shard, client, stream, memory_state, pair, channel, race, served, workers, locks>>

\* get_data_needed_from with `SELECT * FROM t WHERE id = L;`.
MergeRoute ==
    /\ merge.call = "select"
    /\ \E logical \in LogicalIds, memo \in {WhereIdMemo} :
          merge' = [merge EXCEPT
                       !.call = "route",
                       !.logical = logical,
                       !.plan = get_data_needed_from(memo, merge.router,
                                                     WhereIdText(logical))]
    /\ UNCHANGED <<routerVars, manager, manager_call, codec, manager_last, shard, client, stream, memory_state, pair, channel, race, served, workers, locks>>

MergeNext == MergeConfigure \/ MergeSelect \/ MergeRoute

SpecMerge == MergeInit /\ [][MergeNext]_vars

(***************************************************************************)
(* A ShardManager shared by two threads.  The Router that init_router      *)
(* stores in NODE_INSTANCE is a clone of the one the listener threads      *)
(* lock; a clone shares the Arc of the heap, so a send_query through       *)
(* NODE_INSTANCE peeks into the heap the listener updates, and the heap's  *)
(* own mutex is all that orders the two.  update_shard_memory takes and    *)
(* releases that mutex three times: in the peek of delete, in the pop or   *)
(* the draining loop of delete, and in add_shard.  (Updates themselves are *)
(* one at a time: each is made under the lock of the shards map.)  race is *)
(*   heap     - the heap's array                                           *)
(*   pc       - where the updating thread stands: "idle", "delete" (about  *)
(*              to peek), "pop" or "drain" (about to remove), "add" (about *)
(*              to push), "panicked"                                       *)
(*   memory, shard_id - the arguments of the update under way              *)
(*   before   - the heap when that update began                            *)
(*   top      - what the peek of delete returned                           *)
(*   peeked   - the last peek() of the other thread: the pc of the updater *)
(*              at that moment and the result                              *)
(*   comm_channels - the shard ids whose control channel the handshake     *)
(*              saved (the keys of the router's comm_channels)             *)
(***************************************************************************)
RaceInit == LoneInit

\* The handshake of a shard not yet registered, during startup: add_shard
\* (save_shard_in_manager), then save_comm_channel.
RaceAddShard ==
    /\ race.pc = "idle"
    /\ race.peeked.pc = "none"
    /\ Len(race.heap) < MaxHeapSize
    /\ \E value \in MemoryValues, shard_id \in ShardIds :
          /\ \A i \in 1..Len(race.heap) : race.heap[i].value # shard_id
          /\ race' = [race EXCEPT !.heap = add_shard(@, value, shard_id),
                                  !.comm_channels = @ \cup {shard_id}]
    /\ UNCHANGED <<routerVars, manager, manager_call, codec, manager_last, shard, client, stream, memory_state, pair, channel, merge, served, workers, locks>>

\* update_shard_memory(memory, shard_id) is called.
RaceUpdateCalled ==
    /\ race.pc = "idle"
    /\ \E memory \in MemoryValues, shard_id \in ShardIds :
          race' = [race EXCEPT !.pc = "delete", !.memory = memory,
                               !.shard_id = shard_id, !.before = race.heap,
                               !.top = None,
                               !.peeked = [pc |-> "none", result |-> None]]
    /\ UNCHANGED <<routerVars, manager, manager_call, codec, manager_last, shard, client, stream, memory_state, pair, channel, merge, served, workers, locks>>

\* delete: `shard_id == self.peek().unwrap()`.
RaceDeletePeek ==
    /\ race.pc = "delete"
    /\ race' = [race EXCEPT
                   !.top = peek(race.heap),
                   !.pc = IF IsNone(peek(race.heap)) THEN "panicked"
                          ELSE IF Unwrap(peek(race.heap)) = race.shard_id THEN "pop"
                          ELSE "drain"]
    /\ UNCHANGED <<routerVars, manager, manager_call, codec, manager_last, shard, client, stream, memory_state, pair, channel, merge, served, workers, locks>>

\* delete: self.pop().
RaceDeletePop ==
    /\ race.pc = "pop"
    /\ race' = [race EXCEPT !.heap = pop(@), !.pc = "add"]
    /\ UNCHANGED <<routerVars, manager, manager_call, codec, manager_last, shard, client, stream, memory_state, pair, channel, merge, served, workers, locks>>

\* delete: the loop that rebuilds the heap, under one lock.
RaceDeleteDrain ==
    /\ race.pc = "drain"
    /\ race' = [race EXCEPT !.heap = drain_without(@, <<>>, race.shard_id), !.pc = "add"]
    /\ UNCHANGED <<routerVars, manager, manager_call, codec, manager_last, shard, client, stream, memory_state, pair, channel, merge, served, workers, locks>>

\* update_shard_memory: self.add_shard(memory, shard_id).
RaceAdd ==
    /\ race.pc = "add"
    /\ race' = [race EXCEPT !.heap = add_shard(@, race.memory, race.shard_id),
                            !.pc = "idle"]
    /\ UNCHANGED <<routerVars, manager, manager_call, codec, manager_last, shard, client, stream, memory_state, pair, channel, merge, served, workers, locks>>

\* peek() by the other thread (get_data_needed_from routing an INSERT).
RacePeek ==
    /\ race.peeked.pc = "none"
    /\ race.pc # "panicked"
    /\ race' = [race EXCEPT !.peeked = [pc |-> race.pc, result |-> peek(race.heap)]]
    /\ UNCHANGED <<routerVars, manager, manager_call, codec, manager_last, shard, client, stream, memory_state, pair, channel, merge, served, workers, locks>>

RaceNext ==
    \/ RaceAddShard
    \/ RaceUpdateCalled
    \/ RaceDeletePeek
    \/ RaceDeletePop
    \/ RaceDeleteDrain
    \/ RaceAdd
    \/ RacePeek

SpecRace == RaceInit /\ [][RaceNext]_vars

(***************************************************************************)
(* A shard and a router, each reading lines from its connections           *)
(* (Shard::listen, Router::listen), lines that lack a field among them.    *)
(* served is                                                               *)
(*   shard, backend - the Shard value, once Shard::new has returned, and   *)
(*               its backend                                               *)
(*   router, next_node - the router and the next node Router::new is to    *)
(*               configure; it serves once every node is configured        *)
(*   poisoned  - the nodes ("shard", "router") a listener thread of which  *)
(*               unwound holding the node's mutex                          *)
(*   last      - the line read last: at which node, its bytes, how the     *)
(*               handler ended ("Ok", "Panic") and whether a reply was     *)
(*               written                                                   *)
(***************************************************************************)
\* The messages a peer writes to a shard: INIT_CONNECTION with and without
\* node_info, GET_ROUTER.
ShardLines ==
    {to_string(message) :
        message \in {new_init_connection(node_info) : node_info \in RouterInfos}
                       \cup {Message("InitConnection", None, None, None, None),
                             new_get_router}}

\* The messages a peer writes to the router: QUERY with sender and text,
\* without sender, without text.
RouterLines ==
    {to_string(message) :
        message \in {new_query(Some(ClientInfo), query_select_all),
                     new_query(None, query_select_all),
                     Message("Query", None, None, Some(ClientInfo), None)}}

\* The text functions on these lines, besides those of Memo.
ServedMemo ==
    [Memo EXCEPT !.from_string =
        [input \in DOMAIN Memo.from_string
                      \cup {receive_buffer(line) : line \in RouterLines} |->
            from_string(input)]]

ServedInit == LoneInit

\* Shard::new on the shard's node.
ServedNewShard ==
    /\ IsNone(served.shard)
    /\ \E unavailable_memory_perc \in ReservedPcts, stat \in Stats \ {None},
          backend \in Backends :
          served' = [served EXCEPT
                        !.shard = Some(NewShard(unavailable_memory_perc, stat, backend)),
                        !.backend = backend]
    /\ UNCHANGED <<routerVars, manager, manager_call, codec, manager_last, shard, client, stream, memory_state, pair, channel, merge, race, workers, locks>>

\* One call of configure_shard_connection_to in Router::new.
ServedConfigure ==
    /\ served.next_node <= NumNodes
    /\ \E course \in MergeCourses, memo \in {Memo} :
          \E configured \in {configure_shard_connection_to(
                                 memo, served.router, served.next_node,
                                 PortNames[served.next_node], TRUE, TRUE, course.reply)} :
             served' = [served EXCEPT !.router = configured.router,
                                      !.next_node = @ + 1]
    /\ UNCHANGED <<routerVars, manager, manager_call, codec, manager_last, shard, client, stream, memory_state, pair, channel, merge, race, workers, locks>>

\* One iteration of Shard::listen that reads a line.
ServedShardListen ==
    /\ IsSome(served.shard)
    /\ "shard" \notin served.poisoned
    /\ \E line \in ShardLines :
          \E response \in {shard_get_response_message(
                               Unwrap(served.shard), served.backend, None, FALSE,
                               receive_buffer(line))} :
             served' = [served EXCEPT
                           !.shard = Some(response.shard),
                           !.poisoned = IF IsPanic(response) THEN @ \cup {"shard"} ELSE @,
                           !.last = [at |-> "shard", line |-> line, tag |-> response.tag,
                                     replied |-> IsSome(response.answer)]]
    /\ UNCHANGED <<routerVars, manager, manager_call, codec, manager_last, shard, client, stream, memory_state, pair, channel, merge, race, workers, locks>>

\* One iteration of Router::listen that reads a line; the backends return
\* no rows.
ServedRouterListen ==
    /\ served.next_node > NumNodes
    /\ "router" \notin served.poisoned
    /\ \E line \in RouterLines, memo \in {ServedMemo} :
          \E response \in {get_response_message(
                               memo, served.router, receive_buffer(line),
                               [shard_id \in ToSet(keys(served.router.shards)) |->
                                   ShardOutcome(TRUE, <<>>, NoReply)])} :
             served' = [served EXCEPT
                           !.router = response.sent.router,
                           !.poisoned = IF IsPanic(response) THEN @ \cup {"router"} ELSE @,
                           !.last = [at |-> "router", line |-> line, tag |-> response.tag,
                                     replied |-> IsSome(response.reply)]]
    /\ UNCHANGED <<routerVars, manager, manager_call, codec, manager_last, shard, client, stream, memory_state, pair, channel, merge, race, workers, locks>>

ServedNext ==
    \/ ServedNewShard
    \/ ServedConfigure
    \/ ServedShardListen
    \/ ServedRouterListen

SpecServed == ServedInit /\ [][ServedNext]_vars

(***************************************************************************)
(* The threads of a shard.  accept_connections spawns one worker for each  *)
(* accepted control connection, and every worker runs Shard::listen on the *)
(* one Arc<Mutex<Shard>> of the node: an iteration sleeps, locks the       *)
(* shard, locks its own stream, reads with a timeout of 10 seconds,        *)
(* handles what it read, and releases both locks where the iteration ends. *)
(* workers is                                                              *)
(*   shard, backend - the Shard value behind the mutex (None until         *)
(*               Shard::new has returned) and its backend                  *)
(*   holder    - the worker that holds the shard's mutex, 0 when it is     *)
(*               free                                                      *)
(*   poisoned  - whether a worker unwound holding it                       *)
(*   pc        - of each worker: "none" (not spawned), "sleep" (before     *)
(*               `shared_shard.lock()`), "locked" (in the read, holding    *)
(*               the mutex), "dead" (panicked)                             *)
(*   connection - of each worker: "none", "open", or "closed" by the peer  *)
(*   unread    - the bytes the peer wrote that the worker has not read     *)
(*   answered  - whether the message read last from the connection was     *)
(*               answered                                                  *)
(*   arrivals  - the number of messages written by the peers               *)
(***************************************************************************)
\* The messages a shard answers.
WorkerRequests == ShardRequests \ {new_denied}

WorkersInit == LoneInit

\* Shard::new.
WorkersNewShard ==
    /\ IsNone(workers.shard)
    /\ \E unavailable_memory_perc \in ReservedPcts, stat \in Stats \ {None},
          backend \in Backends :
          workers' = [workers EXCEPT
                        !.shard = Some(NewShard(unavailable_memory_perc, stat, backend)),
                        !.backend = backend]
    /\ UNCHANGED <<routerVars, manager, manager_call, codec, manager_last, shard, client, stream, memory_state, pair, channel, merge, race, served, locks>>

\* accept_connections: listener.accept() returns a stream and a worker is
\* spawned for it.
WorkerAccept(w) ==
    /\ IsSome(workers.shard)
    /\ workers.pc[w] = "none"
    /\ workers' = [workers EXCEPT !.pc[w] = "sleep", !.connection[w] = "open"]
    /\ UNCHANGED <<routerVars, manager, manager_call, codec, manager_last, shard, client, stream, memory_state, pair, channel, merge, race, served, locks>>

\* The peer of a connection writes a message.
PeerWrites(w) ==
    /\ workers.connection[w] = "open"
    /\ Len(workers.unread[w]) = 0
    /\ workers.arrivals < MaxArrivals
    /\ \E message \in WorkerRequests :
          workers' = [workers EXCEPT !.unread[w] = to_string(message),
                                     !.answered[w] = FALSE,
                                     !.arrivals = @ + 1]
    /\ UNCHANGED <<routerVars, manager, manager_call, codec, manager_last, shard, client, stream, memory_state, pair, channel, merge, race, served, locks>>

\* The peer of a connection closes it.
PeerCloses(w) ==
    /\ workers.connection[w] = "open"
    /\ workers' = [workers EXCEPT !.connection[w] = "closed"]
    /\ UNCHANGED <<routerVars, manager, manager_call, codec, manager_last, shard, client, stream, memory_state, pair, channel, merge, race, served, locks>>

\* listen: `shared_shard.lock().unwrap()` returns (or panics, the mutex
\* being poisoned); the worker's own stream is locked next.
WorkerLock(w) ==
    /\ workers.pc[w] = "sleep"
    /\ workers.holder = 0
    /\ workers' = IF workers.poisoned
                  THEN [workers EXCEPT !.pc[w] = "dead"]
                  ELSE [workers EXCEPT !.pc[w] = "locked", !.holder = w]
    /\ UNCHANGED <<routerVars, manager, manager_call, codec, manager_last, shard, client, stream, memory_state, pair, channel, merge, race, served, locks>>

\* listen: the read returns the peer's message, the shard handles it and
\* the answer is written; the iteration ends.
WorkerReadMessage(w) ==
    /\ workers.pc[w] = "locked"
    /\ Len(workers.unread[w]) > 0
    /\ \E stat \in Stats :
          \E response \in {shard_get_response_message(
                               Unwrap(workers.shard), workers.backend, stat, FALSE,
                               receive_buffer(workers.unread[w]))} :
             workers' = [workers EXCEPT
                            !.shard = Some(response.shard),
                            !.unread[w] = <<>>,
                            !.answered[w] = IsSome(response.answer),
                            !.holder = 0,
                            !.poisoned = IsPanic(response),
                            !.pc[w] = IF IsPanic(response) THEN "dead" ELSE "sleep"]
    /\ UNCHANGED <<routerVars, manager, manager_call, codec, manager_last, shard, client, stream, memory_state, pair, channel, merge, race, served, locks>>

\* listen: the read returns Ok(0) on a connection the peer closed;
\* `continue` ends the iteration.
WorkerReadClosed(w) ==
    /\ workers.pc[w] = "locked"
    /\ Len(workers.unread[w]) = 0
    /\ workers.connection[w] = "closed"
    /\ workers' = [workers EXCEPT !.holder = 0, !.pc[w] = "sleep"]
    /\ UNCHANGED <<routerVars, manager, manager_call, codec, manager_last, shard, client, stream, memory_state, pair, channel, merge, race, served, locks>>

\* listen: nothing arrives within the 10 seconds of the read timeout; the
\* Err is ignored and the iteration ends.
WorkerReadTimeout(w) ==
    /\ workers.pc[w] = "locked"
    /\ Len(workers.unread[w]) = 0
    /\ workers.connection[w] = "open"
    /\ workers' = [workers EXCEPT !.holder = 0, !.pc[w] = "sleep"]
    /\ UNCHANGED <<routerVars, manager, manager_call, codec, manager_last, shard, client, stream, memory_state, pair, channel, merge, race, served, locks>>

WorkersNext ==
    \/ WorkersNewShard
    \/ \E w \in Workers : WorkerAccept(w)
    \/ \E w \in Workers : PeerWrites(w)
    \/ \E w \in Workers : PeerCloses(w)
    \/ \E w \in Workers : WorkerLock(w)
    \/ \E w \in Workers : WorkerReadMessage(w)
    \/ \E w \in Workers : WorkerReadClosed(w)
    \/ \E w \in Workers : WorkerReadTimeout(w)

\* The threads are scheduled fairly: a thread that can take its next step
\* for good takes it.  std::sync::Mutex promises no order among the threads
\* that wait for it, so nothing more is said of WorkerLock.  A worker that
\* holds the mutex with a message unread can do WorkerReadMessage and
\* nothing else, and no other thread changes that: the weak fairness of
\* WorkerReadMessage(w) is that the worker is not in that state for good.
ReadingMessage(w) == workers.pc[w] = "locked" /\ Len(workers.unread[w]) > 0

WorkersFairness ==
    \A w \in Workers : /\ WF_vars(WorkerLock(w))
                        /\ WF_vars(WorkerReadClosed(w))
                        /\ WF_vars(WorkerReadTimeout(w))
                        /\ []<>~ReadingMessage(w)

SpecWorkers == WorkersInit /\ [][WorkersNext]_vars /\ WorkersFairness

(***************************************************************************)
(* The locks a router's threads take, in the order the code takes them.    *)
(* Each path through send_query is the sequence of its acquisitions and    *)
(* releases; a guard is released where its scope (for a temporary, its     *)
(* statement) ends.  locks is                                              *)
(*   held     - for each lock the threads that hold it (several only for   *)
(*              the read side of the RwLock of comm_channels, which is     *)
(*              written during startup alone)                              *)
(*   poisoned - the mutexes a thread unwound holding                       *)
(*   program  - for each thread what is left of the path it is on          *)
(*   dead     - the threads that panicked                                  *)
(***************************************************************************)
\* ShardManager::peek, pop, add_shard and the loop of delete each lock the
\* heap for themselves.
peek_locks == Locked(ShardManagerLock, <<>>)
update_shard_memory_locks == peek_locks \o peek_locks \o peek_locks

\* handle_response, by the type of the shard's reply: save_shard_in_manager
\* on AGREED, update_shard_in_manager on MEMORY_UPDATE; "none" is the read
\* that fails and the unwrap that panics.
ExchangeEnds == {"MemoryUpdate", "Agreed", "Denied", "none"}
init_message_exchange_locks(reply) ==
    CASE reply = "MemoryUpdate" -> update_shard_memory_locks
      [] reply = "Agreed" -> peek_locks
      [] reply = "none" -> <<PanicOp>>
      [] OTHER -> <<>>

\* ask_for_memory_update: get_stream reads comm_channels and returns; the
\* stream is taken with try_lock and held through the exchange.
ask_for_memory_update_locks(shard_id) ==
    <<LockOp("read", CommChannelsLock), LockOp("unlock", CommChannelsLock),
      TryLockOp(ShardStreamLock(shard_id), 2),
      ExchangeOp(shard_id),
      LockOp("unlock", ShardStreamLock(shard_id))>>

\* send_query_to_shard: the guard of `self.clone().shards.lock()` lives to
\* the end of the `if let`.
send_query_to_shard_relocking(shard_id, update) ==
    Locked(ShardsLock,
           IF update
           THEN <<QueryOp(Len(ask_for_memory_update_locks(shard_id)) + 2)>>
                    \o ask_for_memory_update_locks(shard_id)
                    \o Locked(ShardsLock, <<>>)
           ELSE <<QueryOp(0)>>)
send_query_to_shard_locks(shard_id, update) ==
    Locked(ShardsLock,
           IF update
           THEN <<QueryOp(Len(ask_for_memory_update_locks(shard_id)))>>
                    \o ask_for_memory_update_locks(shard_id)
           ELSE <<QueryOp(0)>>)

\* get_data_needed_from, by the route of the query: "insert" peeks;
\* "found" and "no_table" lock the shards map once in
\* get_specific_shard_with, "not_found" once for the loop and once more
\* after it; "all" locks it once.
Routes == {"insert", "found", "no_table", "not_found", "all"}
get_data_needed_from_locks(route) ==
    CASE route = "insert" -> peek_locks
      [] route = "not_found" -> Locked(ShardsLock, <<>>) \o Locked(ShardsLock, <<>>)
      [] OTHER -> Locked(ShardsLock, <<>>)

RECURSIVE send_to_shards_locks(_, _)
send_to_shards_locks(shards, update) ==
    IF Len(shards) = 0 THEN <<>>
    ELSE send_query_to_shard_locks(shards[1], update)
             \o send_to_shards_locks(Tail(shards), update)

\* Router::send_query on a query routed to shards.
send_query_locks(route, shards, update) ==
    get_data_needed_from_locks(route) \o send_to_shards_locks(shards, update)

\* One iteration of Router::listen: router and stream are locked in that
\* order and dropped in the reverse one.
listen_locks(c) ==
    Locked(RouterLock, Locked(ClientStreamLock(c), <<ReadOp(c)>>))

\* The shards a route sends to: one for "insert" and "found", every shard
\* of the map otherwise.
ShardLists ==
    {<<shard_id>> : shard_id \in LockedShards} \cup {[n \in 1..NumNodes |-> PortNames[n]]}
RoutedShards(route) ==
    IF route \in {"insert", "found"} THEN {shards \in ShardLists : Len(shards) = 1}
    ELSE {shards \in ShardLists : Len(shards) > 1}
\* Whether the shards are asked for a memory update: always after an INSERT.
Updates(route) == IF route = "insert" THEN {TRUE} ELSE BOOLEAN

\* The paths of send_query.
SendQueryLocks ==
    UNION {{send_query_locks(route, shards, update) :
               shards \in RoutedShards(route), update \in Updates(route)} :
           route \in Routes}

LocksInit == LoneInit

Holding(t) == {lock \in RouterLocks : t \in locks.held[lock]}
NextOp(t) == locks.program[t][1]
Running(t) == t \notin locks.dead /\ Len(locks.program[t]) > 0

\* A panic unwinds the thread: its guards are dropped, and the mutexes
\* among them are poisoned.
Unwinding(t) ==
    [locks EXCEPT !.held = [lock \in RouterLocks |-> @[lock] \ {t}],
                  !.poisoned = @ \cup (Holding(t) \ {CommChannelsLock}),
                  !.program[t] = <<>>,
                  !.dead = @ \cup {t}]

\* A listener begins an iteration of its loop.
ListenerBegins(c) ==
    /\ c \notin locks.dead
    /\ Len(locks.program[c]) = 0
    /\ locks' = [locks EXCEPT !.program[c] = listen_locks(c)]
    /\ UNCHANGED <<routerVars, manager, manager_call, codec, manager_last, shard, client, stream, memory_state, pair, channel, merge, race, served, workers>>

\* The read of a listener returns nothing (a timeout, a closed connection,
\* a message that is no query), or a query that send_query handles.
ReadClientStep(c) ==
    /\ Running(c)
    /\ NextOp(c).op = "read_client"
    /\ \/ locks' = [locks EXCEPT !.program[c] = Tail(@)]
       \/ \E path \in SendQueryLocks :
             locks' = [locks EXCEPT !.program[c] = path \o Tail(@)]
    /\ UNCHANGED <<routerVars, manager, manager_call, codec, manager_last, shard, client, stream, memory_state, pair, channel, merge, race, served, workers>>

\* send_query is called on the router of NODE_INSTANCE.
DirectCallerBegins ==
    /\ DirectCaller \notin locks.dead
    /\ Len(locks.program[DirectCaller]) = 0
    /\ \E path \in SendQueryLocks :
          locks' = [locks EXCEPT !.program[DirectCaller] = path]
    /\ UNCHANGED <<routerVars, manager, manager_call, codec, manager_last, shard, client, stream, memory_state, pair, channel, merge, race, served, workers>>

\* shard.query(query, &[]) returns the rows, or an Err and send_query_to_shard
\* returns.
QueryStep(t) ==
    /\ Running(t)
    /\ NextOp(t).op = "query"
    /\ \/ locks' = [locks EXCEPT !.program[t] = Tail(@)]
       \/ locks' = [locks EXCEPT !.program[t] = SubSeq(@, 2 + NextOp(t).skip, Len(@))]
    /\ UNCHANGED <<routerVars, manager, manager_call, codec, manager_last, shard, client, stream, memory_state, pair, channel, merge, race, served, workers>>

\* init_message_exchange: the message is written, the reply read and
\* handled.
ExchangeStep(t) ==
    /\ Running(t)
    /\ NextOp(t).op = "exchange"
    /\ \E reply \in ExchangeEnds :
          locks' = [locks EXCEPT
                       !.program[t] = init_message_exchange_locks(reply) \o Tail(@)]
    /\ UNCHANGED <<routerVars, manager, manager_call, codec, manager_last, shard, client, stream, memory_state, pair, channel, merge, race, served, workers>>

\* Mutex::lock().unwrap(): the thread waits while the mutex is held, and
\* panics when it gets a poisoned one.
LockStep(t) ==
    /\ Running(t)
    /\ NextOp(t).op = "lock"
    /\ locks.held[NextOp(t).lock] = {}
    /\ locks' = IF NextOp(t).lock \in locks.poisoned THEN Unwinding(t)
                ELSE [locks EXCEPT !.held[NextOp(t).lock] = {t},
                                   !.program[t] = Tail(@)]
    /\ UNCHANGED <<routerVars, manager, manager_call, codec, manager_last, shard, client, stream, memory_state, pair, channel, merge, race, served, workers>>

\* Mutex::try_lock(): what it guards is passed over when the mutex is held
\* or poisoned.
TryLockStep(t) ==
    /\ Running(t)
    /\ NextOp(t).op = "try_lock"
    /\ locks' = IF locks.held[NextOp(t).lock] = {} /\ NextOp(t).lock \notin locks.poisoned
                THEN [locks EXCEPT !.held[NextOp(t).lock] = {t},
                                   !.program[t] = Tail(@)]
                ELSE [locks EXCEPT
                         !.program[t] = SubSeq(@, 2 + NextOp(t).skip, Len(@))]
    /\ UNCHANGED <<routerVars, manager, manager_call, codec, manager_last, shard, client, stream, memory_state, pair, channel, merge, race, served, workers>>

\* RwLock::read(): nothing holds the write side after startup.
ReadStep(t) ==
    /\ Running(t)
    /\ NextOp(t).op = "read"
    /\ locks' = [locks EXCEPT !.held[NextOp(t).lock] = @ \cup {t},
                              !.program[t] = Tail(@)]
    /\ UNCHANGED <<routerVars, manager, manager_call, codec, manager_last, shard, client, stream, memory_state, pair, channel, merge, race, served, workers>>

\* A guard is dropped.
UnlockStep(t) ==
    /\ Running(t)
    /\ NextOp(t).op = "unlock"
    /\ locks' = [locks EXCEPT !.held[NextOp(t).lock] = @ \ {t},
                              !.program[t] = Tail(@)]
    /\ UNCHANGED <<routerVars, manager, manager_call, codec, manager_last, shard, client, stream, memory_state, pair, channel, merge, race, served, workers>>

\* An unwrap panics.
PanicStep(t) ==
    /\ Running(t)
    /\ NextOp(t).op = "panic"
    /\ locks' = Unwinding(t)
    /\ UNCHANGED <<routerVars, manager, manager_call, codec, manager_last, shard, client, stream, memory_state, pair, channel, merge, race, served, workers>>

LocksNext ==
    \/ \E c \in Listeners : ListenerBegins(c)
    \/ DirectCallerBegins
    \/ \E t \in Threads : LockStep(t)
    \/ \E t \in Threads : TryLockStep(t)
    \/ \E t \in Threads : ReadStep(t)
    \/ \E t \in Threads : UnlockStep(t)
    \/ \E t \in Threads : PanicStep(t)
    \/ \E c \in Listeners : ReadClientStep(c)
    \/ \E t \in Threads : QueryStep(t)
    \/ \E t \in Threads : ExchangeStep(t)

SpecLocks == LocksInit /\ [][LocksNext]_vars

(***************************************************************************)
(* Properties.  Auxiliary notions first.                                   *)
(***************************************************************************)
\* The query text send_query was given for the request kept in l.
RoutedText(l) ==
    IF l.entry = "client"
    THEN Unwrap(get_data(from_string_of(Memo, Memo.client_messages[l.received]).msg).query)
    ELSE l.received

\* The lines of a merged response: the texts that end with a NUL byte.
ResponseLines(response) ==
    LET pieces == split_char(response, "NUL")
    IN  SubSeq(pieces, 1, Len(pieces) - 1)

\* The id cells of the data rows of a merged response whose first column is
\* the id.
MergedIds(response) ==
    LET lines == ResponseLines(response)
    IN  [k \in 1..(Len(lines) - 1) |-> Unwrap(parse_i64(split_whitespace(lines[k + 1])[1]))]

\* The max id the router knows for table t on a shard, 0 when it knows none.
MaxIdOf(r, shard_id) ==
    LET known == get_max_ids_for_shard_table(r.max_ids, shard_id, table_t)
    IN  IF IsSome(known) THEN Unwrap(known) ELSE 0

RECURSIVE SumMaxIds(_, _)
SumMaxIds(r, shard_ids) ==
    IF Len(shard_ids) = 0 THEN 0
    ELSE MaxIdOf(r, shard_ids[1]) + SumMaxIds(r, Tail(shard_ids))

\* The position of a shard id in the registration order.
PositionOf(r, shard_id) == CHOOSE k \in 1..Len(r.shards) : r.shards[k].id = shard_id

\* The ids the merged response is to show for the rows the logged shards
\* returned: local id plus the max ids of all shards registered earlier.
RECURSIVE ExpectedIds(_, _, _)
ExpectedIds(r, l, k) ==
    IF k > Len(l.log) THEN <<>>
    ELSE LET before == SubSeq(keys(r.shards), 1, PositionOf(r, l.log[k].shard) - 1)
             rows == l.returned[k].rows
         IN  [i \in 1..Len(rows) |-> rows[i].values[1] + SumMaxIds(r, before)]
                 \o ExpectedIds(r, l, k + 1)

RECURSIVE RowsReturned(_, _)
RowsReturned(l, k) ==
    IF k > Len(l.log) THEN 0 ELSE Len(l.returned[k].rows) + RowsReturned(l, k + 1)

EveryShardKnowsTable(r) ==
    \A k \in 1..Len(r.shards) :
        IsSome(get_max_ids_for_shard_table(r.max_ids, r.shards[k].id, table_t))

\* C1: in the merged response of a fan-out SELECT on table t, each row's id
\* is its shard-local id plus the sum of the max ids for t of all shards
\* registered before its shard, whether or not those shards returned rows.
\* (Stated where every shard's max id for t is known to the router and every
\* shard's backend accepted the query.)
C1_MergedIdsCarryCumulativeOffsets ==
    (/\ last.received = query_select_all
     /\ last.tag = "Ok"
     /\ \A k \in 1..Len(last.log) : last.returned[k].ok
     /\ RowsReturned(last, 1) > 0
     /\ EveryShardKnowsTable(router))
        => /\ IsSome(last.response)
           /\ Len(ResponseLines(Unwrap(last.response))) > 0
           /\ MergedIds(Unwrap(last.response)) = ExpectedIds(router, last, 1)

\* The SELECT queries with a WHERE id = N predicate, each cut around the
\* literal N: the text is before, the digits of n, after.
WhereIdQueries ==
    {[before |-> <<"S","E","L","E","C","T"," ","*"," ","F","R","O","M"," ","t"," ","W","H","E","R","E"," ","i","d"," ","="," ">>, n |-> 2, after |-> <<";">>],
     [before |-> <<"S","E","L","E","C","T"," ","*"," ","F","R","O","M"," ","t"," ","W","H","E","R","E"," ","i","d"," ","="," ">>, n |-> 3, after |-> <<";">>],
     [before |-> <<"S","E","L","E","C","T"," ","*"," ","F","R","O","M"," ","t"," ","W","H","E","R","E"," ","i","d"," ","="," ">>, n |-> 5, after |-> <<";">>],
     [before |-> <<"S","E","L","E","C","T"," ","*"," ","F","R","O","M"," ","t"," ","W","H","E","R","E"," ","i","d","=">>, n |-> 3, after |-> <<";">>],
     [before |-> <<"S","E","L","E","C","T"," ","*"," ","F","R","O","M"," ","t"," ","W","H","E","R","E"," ","i","d"," ","="," "," ">>, n |-> 3, after |-> <<";">>]}

TextOf(parts, n) == parts.before \o NatToText(n) \o parts.after

\* The walk over the shards in registration order with the running value n:
\* <<>> when it ends without a target, else <<shard id, n>>.
RECURSIVE Walk(_, _, _)
Walk(r, shard_ids, n) ==
    IF Len(shard_ids) = 0 THEN <<>>
    ELSE LET known == get_max_ids_for_shard_table(r.max_ids, shard_ids[1], table_t)
         IN  IF IsNone(known) THEN Walk(r, Tail(shard_ids), n)
             ELSE IF n > Unwrap(known) THEN Walk(r, Tail(shard_ids), n - Unwrap(known))
             ELSE <<shard_ids[1], n>>

\* C2: for a query with WHERE id = N, with any spacing around the equals
\* sign, the walk in registration order decides the targets: the shard k at
\* which the running value n no longer exceeds max_k is the only target and
\* is sent the original with N replaced by n, every other character
\* unchanged; if the walk ends without a target, every shard is a target and
\* the query is sent unchanged.  (Stated of the SELECT queries given to
\* send_query directly: a SELECT leaves the router as it was, so the state
\* still shows the max ids the walk used.)
C2_WalkDecidesTargetAndRewrite ==
    \A parts \in WhereIdQueries :
        (last.entry = "direct" /\ last.received = TextOf(parts, parts.n))
            => LET found == Walk(router, keys(router.shards), parts.n)
               IN  /\ last.tag = "Ok"
                   /\ IF found = <<>>
                      THEN /\ last.targets = keys(router.shards)
                           /\ last.query = last.received
                      ELSE /\ last.targets = <<found[1]>>
                           /\ last.query = TextOf(parts, found[2])

\* The greatest key in a heap array.
IsGreatestKey(shards, key) ==
    /\ \E i \in 1..Len(shards) : shards[i].key = key
    /\ \A i \in 1..Len(shards) : shards[i].key <= key

\* C3: an INSERT without a WHERE id predicate is executed on exactly one
\* shard, the one shard_manager.peek() returns when the query is routed,
\* whose recorded free percentage is the greatest; and a memory update is
\* then requested from that shard.  (The request is demanded only where the
\* shard's backend accepted the INSERT.)
C3_InsertGoesToPeek ==
    [][(last = Idle /\ last'.received = query_insert)
          => LET top == peek(router.shard_manager)
             IN  /\ IsSome(top)
                 /\ Len(last'.log) = 1
                 /\ last'.log[1].shard = Unwrap(top)
                 /\ \E i \in 1..Len(router.shard_manager) :
                       /\ router.shard_manager[i].value = Unwrap(top)
                       /\ IsGreatestKey(router.shard_manager,
                                        router.shard_manager[i].key)
                 /\ (last'.returned[1].ok => last'.log[1].asked)]_vars

\* C4: a non-empty ShardManager's peek() returns a shard id recorded with a
\* key that is greater than or equal to every recorded key, after any
\* sequence of add_shard and update_shard_memory calls; an empty one's
\* peek() returns None.
C4_PeekReturnsGreatestKey ==
    IF Len(manager) = 0 THEN peek(manager) = None
    ELSE /\ IsSome(peek(manager))
         /\ \E i \in 1..Len(manager) :
               /\ manager[i].value = Unwrap(peek(manager))
               /\ IsGreatestKey(manager, manager[i].key)

\* An update_shard_memory call has just left a heap of three or more entries
\* with different keys.
C4_Witness ==
    /\ manager_call = "update_shard_memory"
    /\ Len(manager) >= 3
    /\ \E i, j \in 1..Len(manager) : manager[i].key < manager[j].key

\* The queries without a WHERE id predicate that do not begin with INSERT.
FanOutQueries ==
    {query_select_all, query_delete_all, query_drop, query_update, query_create}

\* The keywords of a memory-affecting query, met case-insensitively at the
\* start of the text.
BeginsWithMemoryKeyword(text) ==
    \E keyword \in {INSERT, DELETE, DROP, UPDATE, CREATE} :
        starts_with(to_uppercase(text), keyword)

\* C5: a query without a WHERE id predicate that does not begin with INSERT
\* is sent unchanged to every shard of the directory, once each, in
\* registration order; and a memory update is requested from a shard after
\* its execution iff the query begins with INSERT, DELETE, DROP, UPDATE or
\* CREATE.  (The request is demanded only of a shard whose backend accepted
\* the query and that has a control channel.)
C5_FanOutReachesEveryShard ==
    (last.entry # "none" /\ last.received \in FanOutQueries)
        => /\ [k \in 1..Len(last.log) |-> last.log[k].shard] = keys(router.shards)
           /\ \A k \in 1..Len(last.log) :
                 /\ last.log[k].query = RoutedText(last)
                 /\ last.log[k].asked => BeginsWithMemoryKeyword(RoutedText(last))
                 /\ (/\ BeginsWithMemoryKeyword(RoutedText(last))
                     /\ last.returned[k].ok
                     /\ contains_key(router.comm_channels, last.log[k].shard))
                        => last.log[k].asked

SelectQueries ==
    {query_select_all} \cup {TextOf(parts, parts.n) : parts \in WhereIdQueries}

\* C6: the merged response of a SELECT for which at least one shard returned
\* rows is one header row, then as many data rows as the shards returned
\* together.
C6_MergedResponseHasEveryRow ==
    (/\ last.received \in SelectQueries
     /\ last.tag = "Ok"
     /\ RowsReturned(last, 1) > 0)
        => /\ IsSome(last.response)
           /\ Len(ResponseLines(Unwrap(last.response))) = 1 + RowsReturned(last, 1)

\* How often a shard id occurs in the selection heap.
HeapCount(r, shard_id) ==
    Cardinality({i \in 1..Len(r.shard_manager) : r.shard_manager[i].value = shard_id})

\* C7: after startup every shard id of the backend-session map is in the
\* control-channel map and exactly once in the selection heap; and a node
\* whose handshake did not end with AGREED is in none of the three.  (The
\* second part is stated of the node configured last, where no other node
\* has its port.)
C7_DirectoryIsConsistent ==
    /\ phase = "serving"
          => \A k \in 1..Len(router.shards) :
                /\ contains_key(router.comm_channels, router.shards[k].id)
                /\ HeapCount(router, router.shards[k].id) = 1
    /\ (/\ handshake.node # 0
        /\ ~(handshake.answer.kind = "message"
             /\ handshake.answer.msg.message_type = "Agreed")
        /\ \A i \in 1..Len(config) : i # handshake.node => config[i].port # handshake.port)
          => /\ ~contains_key(router.shards, handshake.port)
             /\ ~contains_key(router.comm_channels, handshake.port)
             /\ HeapCount(router, handshake.port) = 0

\* C8: when a node answers INIT_CONNECTION with AGREED(available_pct,
\* tables_max_id), whatever mapping it reports, startup records the shard
\* in the shard manager with that percentage as key and that mapping as
\* snapshot.
C8_AgreedIsRecorded ==
    (/\ handshake.node # 0
     /\ handshake.answer.kind = "message"
     /\ handshake.answer.msg.message_type = "Agreed")
        => /\ phase # "aborted"
           /\ \E i \in 1..Len(router.shard_manager) :
                 router.shard_manager[i] =
                     ShardManagerObject(Unwrap(handshake.answer.msg.payload),
                                        handshake.port)
           /\ \E i \in 1..Len(router.max_ids) :
                 router.max_ids[i] = <<handshake.port,
                                       Unwrap(handshake.answer.msg.max_ids)>>

\* C9: a message built by a constructor, encoded and decoded, comes back
\* with the same type, payload, max_ids, node_info and query text.
C9_RoundTrip ==
    codec.decoded.tag \notin {"None", "Built", "Encoded"}
        => /\ codec.decoded.tag = "Ok"
           /\ codec.decoded.msg = codec.m

\* C10: every QUERY the router reads from a client is answered with a
\* QUERY_RESPONSE on that stream, whatever the query text and the shard
\* directory.  (Client::send_query reads with no timeout: a client that is
\* not answered waits forever.)
C10_EveryQueryIsAnswered ==
    last.entry = "client" => last.replied

\* How often an entry, or a shard id, occurs in a heap array.
EntryCount(shards, object) == Cardinality({i \in 1..Len(shards) : shards[i] = object})
IdCount(shards, shard_id) ==
    Cardinality({i \in 1..Len(shards) : shards[i].value = shard_id})

\* C14: update_shard_memory(free_pct, shard_id) on a heap without an entry
\* for shard_id, the empty heap included, does what add_shard does: it
\* returns normally and the heap then holds the previous entries and one
\* entry for shard_id with key free_pct.
C14_UpdateOfAbsentShardAdds ==
    [][(/\ manager_call' \in {"update_shard_memory", "panic"}
        /\ IdCount(manager, manager_last'.shard_id) = 0)
          => /\ manager_call' = "update_shard_memory"
             /\ Len(manager') = Len(manager) + 1
             /\ \A object \in ToSet(manager') \cup ToSet(manager) :
                   EntryCount(manager', object)
                       = EntryCount(manager, object)
                           + (IF object = ShardManagerObject(manager_last'.memory,
                                                             manager_last'.shard_id)
                              THEN 1 ELSE 0)]_vars

\* The shard ids recorded with the greatest key of a heap array.
TiedAtTop(shards) ==
    {shards[i].value : i \in {k \in 1..Len(shards) : IsGreatestKey(shards, shards[k].key)}}

\* The member of ids that comes first in the sequence registered.
Earliest(registered, ids) ==
    registered[CHOOSE i \in 1..Len(registered) :
                   /\ registered[i] \in ids
                   /\ \A j \in 1..(i - 1) : registered[j] \notin ids]

\* C15: when two or more shards hold the greatest free percentage, peek()
\* returns the one of them that was registered first, also after
\* update_shard_memory calls.  (Stated of heaps in which no shard id occurs
\* twice.)
C15_TieGoesToEarliestRegistered ==
    (/\ \A shard_id \in ShardIds : IdCount(manager, shard_id) <= 1
     /\ Cardinality(TiedAtTop(manager)) >= 2)
        => peek(manager) = Some(Earliest(manager_last.registered, TiedAtTop(manager)))

\* C16: a shard id occurs at most once in the selection heap, also when
\* add_shard is called for an id that is present, as it is for the second
\* of two configured nodes with one port.
C16_ShardIdOccursOnce ==
    /\ \A i, j \in 1..Len(router.shard_manager) :
          router.shard_manager[i].value = router.shard_manager[j].value => i = j
    /\ \A i, j \in 1..Len(manager) : manager[i].value = manager[j].value => i = j

\* The queries whose WHERE id = is followed by something other than one
\* integer literal.
NonIntegerIdQueries == {query_select_id_and}

\* C17: a query whose WHERE id = is followed by anything but a single integer
\* literal is not id-targeted: target selection returns normally and the
\* fan-out rule is applied to the unchanged query.
C17_OtherPredicateFansOut ==
    (last.entry # "none" /\ last.received \in NonIntegerIdQueries)
        => /\ last.tag = "Ok"
           /\ last.targets = keys(router.shards)
           /\ last.query = RoutedText(last)

\* C18: router startup completes whatever a configured node does while it
\* is connected: Router::new never unwinds.
C18_StartupCompletes == phase # "aborted"

\* The recorded heap entries and max-id snapshot of a shard.
HeapEntriesOf(r, shard_id) ==
    {r.shard_manager[i] : i \in {k \in 1..Len(r.shard_manager) :
                                     r.shard_manager[k].value = shard_id}}
SnapshotOf(r, shard_id) ==
    {r.max_ids[i] : i \in {k \in 1..Len(r.max_ids) : r.max_ids[k][1] = shard_id}}

\* C19: when the read of a shard's reply to ASK_MEMORY_UPDATE fails or times
\* out, the router takes it as a failed update only: the shard's heap key
\* and max-id snapshot stay as they were, the channel stays in the
\* control-channel map, the query's result is returned (to the client, when
\* it came from one), and the router goes on serving.
C19_LostUpdateIsOnlyAFailedUpdate ==
    [][(/\ last = Idle
        /\ last'.entry # "none"
        /\ \E k \in 1..Len(last'.log) : last'.returned[k].reply = "no_reply")
          => /\ last'.tag = "Ok"
             /\ IsSome(last'.response)
             /\ last'.entry = "client" => last'.replied
             /\ poisoned' = poisoned
             /\ \A k \in 1..Len(last'.log) :
                   last'.returned[k].reply = "no_reply"
                      => /\ HeapEntriesOf(router', last'.log[k].shard)
                               = HeapEntriesOf(router, last'.log[k].shard)
                         /\ SnapshotOf(router', last'.log[k].shard)
                               = SnapshotOf(router, last'.log[k].shard)
                         /\ contains_key(router'.comm_channels, last'.log[k].shard)]_vars

\* C20: in a fan-out in which the backend of a target returns an error, that
\* shard contributes no rows, every other target is queried all the same,
\* and the response holds the rows of the shards that succeeded.
C20_BackendErrorCostsOnlyThatShard ==
    (/\ last.entry # "none"
     /\ last.received \in FanOutQueries
     /\ \E k \in 1..Len(last.log) : ~last.returned[k].ok)
        => /\ [k \in 1..Len(last.log) |-> last.log[k].shard] = keys(router.shards)
           /\ \A k \in 1..Len(last.log) :
                 ~last.returned[k].ok => Len(last.returned[k].rows) = 0
           /\ last.tag = "Ok"
           /\ IsSome(last.response)
           /\ RowsReturned(last, 1) > 0
                 => Len(ResponseLines(Unwrap(last.response))) = 1 + RowsReturned(last, 1)

\* What the peer of a control connection reads as the shard's reply.
ShardReplyRead == from_string(receive_buffer(Unwrap(shard.reply)))

\* C12: a GET_ROUTER the shard handles, on whichever control connection, is
\* answered with ROUTER_ID(a), a being the node_info of the INIT_CONNECTION
\* it handled last, and with NO_ROUTER_DATA when it has handled none.
C12_GetRouterNamesLastRouter ==
    (shard.call = "listen" /\ shard.request.message_type = "GetRouter")
        => /\ IsSome(shard.reply)
           /\ ShardReplyRead.tag = "Ok"
           /\ ShardReplyRead.msg = IF IsSome(shard.router.node_info)
                                   THEN new_router_id(Unwrap(shard.router.node_info))
                                   ELSE new_no_router_data

\* A GET_ROUTER on one connection is answered with the router of an
\* INIT_CONNECTION that came on the other and replaced an earlier router.
C12_Witness ==
    /\ shard.call = "listen"
    /\ shard.request.message_type = "GetRouter"
    /\ shard.router.replaced
    /\ shard.router.connection # shard.connection
    /\ IsSome(shard.answer)
    /\ Unwrap(shard.answer).message_type = "RouterId"

\* The tables of the shard's public schema.
PublicTables == {table \in ToSet(BackendTables) : shard.backend[table].kind # "absent"}

TableNames(info) == {info[i][1] : i \in 1..Len(info)}

\* C13: an INIT_CONNECTION that the shard answers is answered with AGREED,
\* an available percentage in 0..100 and a tables_max_id whose keys are the
\* tables of the public schema at that moment.
C13_AgreedListsThePublicTables ==
    (shard.call = "listen" /\ shard.request.message_type = "InitConnection"
        /\ IsSome(shard.answer))
        => /\ Unwrap(shard.answer).message_type = "Agreed"
           /\ Unwrap(Unwrap(shard.answer).payload) \in 0..100
           /\ TableNames(Unwrap(Unwrap(shard.answer).max_ids)) = PublicTables

\* The positions before at of the configured nodes other than the client.
OtherNodesBefore(c) ==
    SelectSeq([i \in 1..(c.at - 1) |-> i], LAMBDA i : c.nodes[i] # c.info)

NamesRouter(course) ==
    course.answer.kind = "message" /\ course.answer.msg.message_type = "RouterId"

\* C11: discovery probes the configured nodes other than the client itself,
\* in the order of the configuration and each once; it goes on to the next
\* node after one that is unreachable, answers NO_ROUTER_DATA or does not
\* answer; the first ROUTER_ID(addr) ends it with the query channel open to
\* addr.ip : addr.port + 1000; it ends with a fatal error only when no node
\* of the list answered ROUTER_ID.
C11_DiscoveryProbesTheOthersInOrder ==
    client.status # "none"
        => /\ client.probed = OtherNodesBefore(client)
           /\ \A k \in 1..(Len(client.courses) - 1) : ~NamesRouter(client.courses[k])
           /\ client.status = "probing"
                 => \A k \in 1..Len(client.courses) : ~NamesRouter(client.courses[k])
           /\ client.status = "connected"
                 => /\ NamesRouter(client.courses[Len(client.courses)])
                    /\ Let(Unwrap(client.courses[Len(client.courses)].answer.msg.node_info),
                           LAMBDA addr :
                               client.channel
                                   = Some(Address(addr.ip,
                                                  Unwrap(parse_u64(addr.port)) + 1000)))
           /\ client.status \in {"fatal", "panic_reply"}
                 => /\ client.at > Len(client.nodes)
                    /\ \A k \in 1..Len(client.courses) : ~NamesRouter(client.courses[k])
           /\ client.status = "panic_connect"
                 => /\ NamesRouter(client.courses[Len(client.courses)])
                    /\ ~client.courses[Len(client.courses)].channel

\* The requests in which the backend of every target rejected the query.
EveryTargetRejected(l) ==
    /\ l.entry = "client"
    /\ l.tag = "Ok"
    /\ Len(l.targets) > 0
    /\ Len(l.log) = Len(l.targets)
    /\ \A k \in 1..Len(l.returned) : ~l.returned[k].ok

\* C21: when the backend of every target rejects the query, the client is
\* sent a QUERY_RESPONSE whose text differs from the text sent for a query
\* that succeeded without rows.
C21_RejectionIsReported ==
    EveryTargetRejected(last)
        => /\ last.replied
           /\ IsSome(last.response)
           /\ Unwrap(last.response) # rows_convert_to_string(<<>>)

\* C22: a shard whose backend rejected the query is sent no
\* ASK_MEMORY_UPDATE for it and keeps its heap key and max-id snapshot; a
\* shard is sent ASK_MEMORY_UPDATE only after its backend accepted a query
\* that begins with INSERT, DELETE, DROP, UPDATE or CREATE.
C22_RejectedQueryAsksNoUpdate ==
    [][(last = Idle /\ last'.entry # "none")
          => \A k \in 1..Len(last'.log) :
                /\ ~last'.returned[k].ok
                      => /\ ~last'.log[k].asked
                         /\ HeapEntriesOf(router', last'.log[k].shard)
                               = HeapEntriesOf(router, last'.log[k].shard)
                         /\ SnapshotOf(router', last'.log[k].shard)
                               = SnapshotOf(router, last'.log[k].shard)
                /\ last'.log[k].asked
                      => /\ last'.returned[k].ok
                         /\ BeginsWithMemoryKeyword(last'.log[k].query)]_vars

\* A memory-affecting query went to two shards: the backend of one rejected
\* it and that shard was asked nothing, the other accepted it and answered
\* the ASK_MEMORY_UPDATE that followed.
C22_Witness ==
    /\ last.entry # "none"
    /\ last.tag = "Ok"
    /\ \E j, k \in 1..Len(last.log) :
          /\ ~last.returned[j].ok
          /\ ~last.log[j].asked
          /\ last.returned[k].ok
          /\ last.log[k].asked
          /\ last.returned[k].reply = "reply"

\* The lines with a known type token, and those among them with a malformed
\* field.
HasKnownType(line) ==
    \E t \in MessageTypes : starts_with(line, TypeText(t) \o <<" ">>)
MalformedLines ==
    Lines \ {Line(type, payload, max_ids, node_info) :
                type \in TypeTokens, payload \in {NoneText, <<"1", "0">>},
                max_ids \in {NoneText, <<"t", ":", "1">>},
                node_info \in {NoneText, <<"a", ":", "1">>}}

\* C23: the decoder returns the InvalidMessage error as a value for a line
\* whose type token is unknown and for a line of known type whose payload,
\* max_ids or node_info field is malformed.
C23_MalformedLineIsAnError ==
    (codec.decoded.tag \notin {"None", "Arrived"}
        /\ (~HasKnownType(codec.wire) \/ codec.wire \in MalformedLines))
        => codec.decoded.tag = "Err"

\* C24: a message whose text is longer than the buffer is written by no
\* sender, and a receiver takes for a message only bytes that are the whole
\* text of a message written.
C24_OversizeIsRejected ==
    /\ \A k \in 1..Len(stream.written) : Len(to_string(stream.written[k])) <= BufferSize
    /\ \A k \in 1..Len(stream.reads) :
          stream.reads[k].decoded.tag = "Ok" => stream.reads[k].whole

(***************************************************************************)
(* C25: for every unavailable_memory_perc in 0..100 and every reading with *)
(* total >= available >= 0, the percentage the memory manager computes     *)
(* lies in 0..100; it is 0 when unavailable_memory_perc is 100 and 0 when  *)
(* the reserved amount total * unavailable_memory_perc / 100 exceeds the   *)
(* available space.                                                        *)
(***************************************************************************)
IsZero(x) == x.den > 0 /\ x.num = 0
InPercentRange(x) == ~IsNaN(x) /\ ~f64_lt(x, 0) /\ ~f64_gt(x, 100)

C25_PercentageInRange ==
    (memory_state.call # "none" /\ memory_state.unavailable_memory_perc \in 0..100
        /\ IsSome(memory_state.stat))
        => /\ IsSome(memory_state.perc)
           /\ InPercentRange(Unwrap(memory_state.perc))
           /\ memory_state.unavailable_memory_perc = 100 => IsZero(Unwrap(memory_state.perc))
           /\ Unwrap(memory_state.stat).total * memory_state.unavailable_memory_perc
                 > 100 * Unwrap(memory_state.stat).available
                 => IsZero(Unwrap(memory_state.perc))

(***************************************************************************)
(* C26: MemoryManager::new panics and constructs no manager for every      *)
(* unavailable_memory_perc below 0 or above 100.                           *)
(***************************************************************************)
C26_InvalidPercentagePanics ==
    (memory_state.call = "new"
        /\ (memory_state.unavailable_memory_perc < 0 \/ memory_state.unavailable_memory_perc > 100))
        => /\ memory_state.panicked
           /\ IsNone(memory_state.manager)

(***************************************************************************)
(* C27: a shard answers every ASK_MEMORY_UPDATE with exactly one           *)
(* MEMORY_UPDATE; when the filesystem cannot be read during the refresh,   *)
(* the memory manager's available_memory_perc is left as it was and the    *)
(* reply carries the value it had before the request.                      *)
(***************************************************************************)
AskHandled ==
    /\ shard' # shard
    /\ shard'.call = "listen"
    /\ shard'.request.message_type = "AskMemoryUpdate"

C27_AskIsAnsweredWithMemoryUpdate ==
    [][AskHandled
          => /\ IsSome(shard'.answer)
             /\ Unwrap(shard'.answer).message_type = "MemoryUpdate"
             /\ IsNone(shard'.stat)
                   => /\ shard'.node.memory_manager = shard.node.memory_manager
                      /\ Unwrap(shard'.answer).payload
                            = Some(f64_payload(shard.node.memory_manager.available_memory_perc))]_vars

MessageOfWire ==
    [wire \in {to_string(a.msg) : a \in {b \in MemoryAnswers : b.kind = "message"}} |->
        (CHOOSE a \in {b \in MemoryAnswers : b.kind = "message"} : to_string(a.msg) = wire).msg]

\* The AGREED or MEMORY_UPDATE replies of shard_id read in the step.
RepliesRead(shard_id) ==
    (IF /\ handshake' # handshake
        /\ handshake'.node # 0
        /\ handshake'.port = shard_id
        /\ handshake'.answer.kind = "message"
        /\ handshake'.answer.msg.message_type = "Agreed"
     THEN {handshake'.answer.msg} ELSE {})
    \cup
    (IF last = Idle /\ last'.entry # "none"
     THEN {MessageOfWire[last'.returned[k].wire] :
              k \in {j \in 1..Len(last'.log) :
                        /\ last'.log[j].shard = shard_id
                        /\ last'.returned[j].reply = "reply"
                        /\ last'.returned[j].wire \in DOMAIN MessageOfWire
                        /\ MessageOfWire[last'.returned[j].wire].message_type
                              = "MemoryUpdate"}}
     ELSE {})

C29_RecordsFollowReplies ==
    [][\A shard_id \in ToSet(PortNames) :
          /\ (\/ HeapEntriesOf(router', shard_id) # HeapEntriesOf(router, shard_id)
              \/ SnapshotOf(router', shard_id) # SnapshotOf(router, shard_id))
                => RepliesRead(shard_id) # {}
          /\ \A reply \in RepliesRead(shard_id) :
                /\ HeapEntriesOf(router', shard_id)
                      = {ShardManagerObject(Unwrap(reply.payload), shard_id)}
                /\ SnapshotOf(router', shard_id)
                      = {<<shard_id, Unwrap(reply.max_ids)>>}]_vars

(***************************************************************************)
(* C30: on a control channel at most one request is outstanding at any     *)
(* time, the stream's lock being held from the write of a request until    *)
(* its reply has been read; every reply read from the channel is the reply *)
(* to the request its reader wrote.                                        *)
(***************************************************************************)
\* The position in the stream of the first byte of the reply to a request.
ReplyStart(request) == IF request = 1 THEN 1 ELSE channel.ends[request - 1] + 1

C30_OneOutstandingRequest ==
    /\ channel.holder # "none"
          => /\ channel.requests[Len(channel.requests)].caller = channel.holder
             \* the replies to the requests written before have been read
             /\ Len(channel.requests) > 1
                   => /\ Len(channel.ends) >= Len(channel.requests) - 1
                      /\ channel.consumed >= channel.ends[Len(channel.requests) - 1]
    /\ \A k \in 1..Len(channel.reads) :
          /\ channel.reads[k].request <= Len(channel.ends)
          /\ channel.reads[k].first = ReplyStart(channel.reads[k].request)
          /\ channel.reads[k].last <= channel.ends[channel.reads[k].request]

(***************************************************************************)
(* C31: when the bytes a shard sends in reply to ASK_MEMORY_UPDATE do not  *)
(* decode to a MEMORY_UPDATE or AGREED carrying both a payload and a       *)
(* max_ids mapping, the router drops that reply: the shard's heap entries  *)
(* and max-id snapshot are left as they were, the query's result is still  *)
(* returned, and the router keeps serving.                                 *)
(***************************************************************************)
\* The reply decodes to a MEMORY_UPDATE or AGREED with payload and max_ids.
CarriesUpdate(wire) ==
    Let(from_string(receive_buffer(wire)), LAMBDA decoded :
        /\ decoded.tag = "Ok"
        /\ decoded.msg.message_type \in {"MemoryUpdate", "Agreed"}
        /\ IsSome(get_data(decoded.msg).payload)
        /\ IsSome(get_data(decoded.msg).max_ids))

\* The memory replies of the model, by whether they carry an update.
UpdateCarried == [reply \in MemoryReplies |-> CarriesUpdate(reply.wire)]

C31_MalformedReplyIsDropped ==
    [][(/\ last = Idle
        /\ last'.entry # "none")
          => \A k \in 1..Len(last'.log) :
                (/\ last'.returned[k].reply = "reply"
                 /\ ~UpdateCarried[ReplyOf(last'.returned[k].wire)])
                   => /\ last'.tag = "Ok"
                      /\ IsSome(last'.response)
                      /\ last'.entry = "client" => last'.replied
                      /\ poisoned' = poisoned
                      /\ HeapEntriesOf(router', last'.log[k].shard)
                            = HeapEntriesOf(router, last'.log[k].shard)
                      /\ SnapshotOf(router', last'.log[k].shard)
                            = SnapshotOf(router, last'.log[k].shard)]_vars

(***************************************************************************)
(* C32: after a max-id refresh on a shard, every table of the public       *)
(* schema has an entry in tables_max_id: MAX(id) when the table has rows   *)
(* with an id column, 0 when the table is empty and also when the table    *)
(* has no id column.                                                       *)
(***************************************************************************)
\* The shard has just run set_max_ids: in Shard::new, or to answer an
\* ASK_MEMORY_UPDATE.
Refreshed ==
    \/ shard.call = "new"
    \/ /\ shard.call = "listen"
       /\ shard.request.message_type = "AskMemoryUpdate"
       /\ IsSome(shard.answer)

C32_RefreshCoversEveryTable ==
    Refreshed
        => \A table \in PublicTables :
              tables_get(shard.node.tables_max_id, table)
                 = Some(IF shard.backend[table].kind = "rows"
                        THEN shard.backend[table].max ELSE 0)

(***************************************************************************)
(* C33: for every total, free and reserved_pct < 100, the memory manager's *)
(* available percentage equals                                             *)
(*   100 * max(0, free - total * reserved_pct / 100)                       *)
(*       / (total - total * reserved_pct / 100)                            *)
(* clamped to 0..100; in particular a result above 100 is clamped to 100.  *)
(* (Stated for total > 0, where the quotient is defined.)                  *)
(***************************************************************************)
\* Equality of two f64 values held as fractions, each brought to lowest
\* terms; NaN equals nothing.
RECURSIVE GCD(_, _)
GCD(a, b) == IF b = 0 THEN a ELSE GCD(b, a % b)

LowestTerms(x) ==
    Let(GCD(IF x.num < 0 THEN -x.num ELSE x.num, x.den), LAMBDA g :
        F64(x.num \div g, x.den \div g))

f64_eq(x, y) == x.den > 0 /\ y.den > 0 /\ LowestTerms(x) = LowestTerms(y)

\* The claimed percentage, numerator and denominator both taken times 100.
ClaimedPercentage(reserved_pct, total, free) ==
    Let(F64(100 * (IF 100 * free > total * reserved_pct
                   THEN 100 * free - total * reserved_pct ELSE 0),
            100 * total - total * reserved_pct),
        LAMBDA quotient :
            IF f64_gt(quotient, 100) THEN F64(100, 1)
            ELSE IF f64_lt(quotient, 0) THEN F64(0, 1)
            ELSE quotient)

C33_PercentageIsTheClampedQuotient ==
    (/\ memory_state.call # "none"
     /\ memory_state.unavailable_memory_perc < 100
     /\ IsSome(memory_state.stat)
     /\ Unwrap(memory_state.stat).total > 0)
        => /\ IsSome(memory_state.perc)
           /\ f64_eq(Unwrap(memory_state.perc),
                     ClaimedPercentage(memory_state.unavailable_memory_perc,
                                       Unwrap(memory_state.stat).total,
                                       Unwrap(memory_state.stat).available))

(***************************************************************************)
(* C34: logical ids round-trip between merging and routing.  If a fan-out  *)
(* SELECT on table t presents a row of shard k with logical id L, then a   *)
(* query on t with `WHERE id = L`, routed against the same snapshots,      *)
(* targets shard k alone and is rewritten to that row's shard-local id;    *)
(* so two distinct rows of one merged response never carry the same        *)
(* logical id.  (Stated of a router whose snapshots are current and whose   *)
(* shards all hold table t.)                                               *)
(***************************************************************************)
\* The rows of a merged response in the order it shows them, each as
\* <<shard, shard-local id>>.
RECURSIVE MergedRows(_, _)
MergedRows(l, k) ==
    IF k > Len(l.log) THEN <<>>
    ELSE [i \in 1..Len(l.returned[k].rows) |->
             <<l.log[k].shard, l.returned[k].rows[i].values[1]>>]
             \o MergedRows(l, k + 1)

C34_LogicalIdsRoundTrip ==
    (/\ merge.call = "route"
     /\ RowsReturned(merge.last, 1) > 0)
        => /\ IsSome(merge.last.response)
           /\ Len(ResponseLines(Unwrap(merge.last.response)))
                 = 1 + RowsReturned(merge.last, 1)
           /\ Let(MergedIds(Unwrap(merge.last.response)), LAMBDA logical :
              Let(MergedRows(merge.last, 1), LAMBDA presented :
                  /\ \A j \in 1..Len(logical) :
                        logical[j] = merge.logical
                           => /\ merge.plan.tag = "Ok"
                              /\ merge.plan.shards = <<presented[j][1]>>
                              /\ merge.plan.query = WhereIdText(presented[j][2])
                  /\ \A i, j \in 1..Len(logical) : logical[i] = logical[j] => i = j))

(***************************************************************************)
(* C35: update_shard_memory is atomic with respect to a concurrent peek.   *)
(* While one thread runs update_shard_memory(v, s) on a manager that        *)
(* contains s, a peek() by another thread never observes the heap without  *)
(* s: it never returns None, and it returns a shard that is the maximum    *)
(* under either the old or the new key of s.                               *)
(***************************************************************************)
\* The shards recorded with the greatest key of a heap.
TopsOf(shards) ==
    {shards[i].value : i \in {k \in 1..Len(shards) : IsGreatestKey(shards, shards[k].key)}}

Contains(shards, shard_id) == \E i \in 1..Len(shards) : shards[i].value = shard_id

C35_UpdateIsAtomicForPeek ==
    (/\ race.peeked.pc \in {"delete", "pop", "drain", "add"}
     /\ Contains(race.before, race.shard_id))
        => /\ IsSome(race.peeked.result)
           /\ Unwrap(race.peeked.result)
                 \in TopsOf(race.before)
                        \cup TopsOf(update_shard_memory(race.before, race.memory,
                                                        race.shard_id).val)

(***************************************************************************)
(* C36: when the router's shard directory is empty, send_query returns     *)
(* None for every query text, an INSERT as well as a SELECT or a DDL       *)
(* statement, without executing anything and without terminating the       *)
(* router.                                                                 *)
(***************************************************************************)
C36_EmptyDirectoryReturnsNone ==
    (/\ last.entry # "none"
     /\ last.called
     /\ Len(router.shards) = 0)
        => /\ last.tag = "Ok"
           /\ IsNone(last.response)
           /\ Len(last.log) = 0

(***************************************************************************)
(* C37: a received line that decodes to a known message type but lacks the *)
(* field that type needs (an INIT_CONNECTION without node_info at a shard, *)
(* a QUERY without sender node_info or without query text at the router)   *)
(* is dropped: the node sends no reply, keeps its state unchanged, and      *)
(* keeps serving this and other connections.                               *)
(***************************************************************************)
\* The lines that lack a field, at either node.
LackingLines ==
    {to_string(message) :
        message \in {Message("InitConnection", None, None, None, None),
                     new_query(None, query_select_all),
                     Message("Query", None, None, Some(ClientInfo), None)}}

C37_LineLackingAFieldIsDropped ==
    [][(/\ served'.last # served.last
        /\ served'.last.line \in LackingLines)
          => /\ served'.last.tag = "Ok"
             /\ ~served'.last.replied
             /\ served'.shard = served.shard
             /\ served'.router = served.router
             /\ served'.poisoned = served.poisoned]_vars

(***************************************************************************)
(* C38: in every router state after startup, the shard ids that have a     *)
(* control channel are the shard ids present in the heap of the shard      *)
(* manager, and both are among the shard ids of the backend-session map;   *)
(* the shard peek() returns has a backend session and a control channel.   *)
(***************************************************************************)
InHeap(shards) == {shards[i].value : i \in 1..Len(shards)}

\* The router between two handlers.
ChannelsAreTheHeap ==
    phase = "serving"
        => /\ ToSet(keys(router.comm_channels)) = InHeap(router.shard_manager)
           /\ InHeap(router.shard_manager) \subseteq ToSet(keys(router.shards))
           /\ IsSome(peek(router.shard_manager))
                => /\ contains_key(router.shards, Unwrap(peek(router.shard_manager)))
                   /\ contains_key(router.comm_channels, Unwrap(peek(router.shard_manager)))

\* The router while a listener thread updates the memory of a shard that has
\* a control channel, as the thread that holds the clone finds it.
C38_ChannelsAreTheHeapAndHaveSessions ==
    (/\ race.pc \in {"delete", "pop", "drain", "add"}
     /\ race.shard_id \in race.comm_channels
     /\ InHeap(race.before) = race.comm_channels)
        => /\ race.comm_channels = InHeap(race.heap)
           /\ IsSome(peek(race.heap)) => Unwrap(peek(race.heap)) \in race.comm_channels

(***************************************************************************)
(* C39: on a shard with several accepted control connections, a control    *)
(* message that has arrived on one connection is eventually processed and  *)
(* answered, while the other connections stay idle or have been closed by  *)
(* their peers: no worker keeps the shard's lock forever and, the workers  *)
(* being scheduled fairly, none is starved of it.                          *)
(***************************************************************************)
HasArrived(w) == Len(workers.unread[w]) > 0
IsAnswered(w) == Len(workers.unread[w]) = 0 /\ workers.answered[w]

Waits(t) ==
    /\ Running(t)
    /\ NextOp(t).op = "lock"
    /\ locks.held[NextOp(t).lock] # {}

\* No set of threads each of which waits for a mutex held inside the set
\* (a thread alone in such a set waits for a mutex it holds itself).
C40_RouterIsDeadlockFree ==
    \A waiting \in SUBSET Threads \ {{}} :
        \E t \in waiting : ~(Waits(t) /\ locks.held[NextOp(t).lock] \subseteq waiting)

\* A listener that holds the router and its stream waits for the shards map
\* while the direct caller holds it with a shard's stream, and another
\* listener waits for the router.
C40_Witness ==
    \E c \in Listeners : \E d \in Listeners \ {c} :
        /\ Waits(c) /\ NextOp(c).lock = ShardsLock
        /\ {RouterLock, ClientStreamLock(c)} \subseteq Holding(c)
        /\ Waits(d) /\ NextOp(d).lock = RouterLock
        /\ ShardsLock \in Holding(DirectCaller)
        /\ \E shard_id \in LockedShards : ShardStreamLock(shard_id) \in Holding(DirectCaller)

====
